---- MODULE Spec2Model ----
(***************************************************************************)
(* A model of functions/manager.py: the Boto3Result wrapper, invoke, the   *)
(* three command handlers (_healthcheck, _runtask, _deploy) and the        *)
(* lambda_handler dispatcher.                                              *)
(*                                                                         *)
(* Python values are records.  A dict is a record whose keys are the       *)
(* dict's keys (it never has the key "pytype"); every other value carries  *)
(* its type in the field "pytype".                                         *)
(***************************************************************************)
EXTENDS Integers, Sequences, FiniteSets, TLC

VARIABLES
    event,      \* the event handed to lambda_handler
    pc,         \* position of the invocation: "start", a remote call site, "done", "raised"
    loc,        \* the local variables of the running handler
    calls,      \* every remote call made so far: <<[op, kwargs, result]>>, result
                \* being the Boto3Result invoke built from it (None for a direct call)
    logs,       \* every call of log(): <<[msg, data, level]>>
    handled,    \* every handler invocation of the dispatch table: <<[command, body]>>
    hres,       \* the Boto3Result the handler returned, None before
    ret,        \* the mapping lambda_handler returned, None before
    raised,     \* the exception that left lambda_handler, None if none
    rin,        \* Boto3Result(): the constructor's arguments [response, exc]
    robj,       \* Boto3Result(): the object built (or the exception raised), None before
    fin,        \* invoke(): the callable's behaviour and the keyword arguments
    fcalls,     \* invoke(): the keyword arguments of every call of the callable
    fres        \* invoke(): what invoke returned, None before

vars == <<event, pc, loc, calls, logs, handled, hres, ret, raised,
          rin, robj, fin, fcalls, fres>>

hvars == <<event, pc, loc, calls, logs, handled, hres, ret, raised>>
bvars == <<rin, robj, fin, fcalls, fres>>

-----------------------------------------------------------------------------
(* Python values *)

NoneV == [pytype |-> "None"]
PyStr(s) == [pytype |-> "str", s |-> s]
PyInt(i) == [pytype |-> "int", i |-> i]
PyList(items) == [pytype |-> "list", items |-> items]
\* an exception of class cls built with the one argument arg
PyExc(cls, arg) == [pytype |-> "exc", cls |-> cls, arg |-> arg]
PyErr(cls, text) == PyExc(cls, PyStr(text))
EmptyDict == [k \in {} |-> NoneV]

IsDict(v) == "pytype" \notin DOMAIN v
IsNone(v) == ~IsDict(v) /\ v.pytype = "None"
IsPyStr(v) == ~IsDict(v) /\ v.pytype = "str"
IsPyList(v) == ~IsDict(v) /\ v.pytype = "list"
IsException(v) == ~IsDict(v) /\ v.pytype = "exc"

\* bool(v)
Truthy(v) ==
    IF IsDict(v) THEN DOMAIN v # {}
    ELSE CASE v.pytype = "None" -> FALSE
           [] v.pytype = "str" -> v.s # ""
           [] v.pytype = "int" -> v.i # 0
           [] v.pytype = "list" -> Len(v.items) > 0
           [] OTHER -> TRUE

\* d.get(k, default)
Get(d, k, default) == IF k \in DOMAIN d THEN d[k] ELSE default

\* d1.update(d2), as a new dict
Update(d1, d2) ==
    [k \in DOMAIN d1 \cup DOMAIN d2 |-> IF k \in DOMAIN d2 THEN d2[k] ELSE d1[k]]

\* str(v) of None, an int or a str
StrOf(v) ==
    CASE v.pytype = "None" -> "None"
      [] v.pytype = "int" -> ToString(v.i)
      [] v.pytype = "str" -> v.s

\* an exception leaving a call instead of a value
Raise(cls, msg) == [pytype |-> "raise", exc |-> PyErr(cls, msg)]
IsRaise(v) == ~IsDict(v) /\ v.pytype = "raise"

-----------------------------------------------------------------------------
(* Boto3Result *)

HTTPStatusOK == 200

\* Boto3Result.__init__ without the check of its arguments
Boto3ResultUnchecked(response, exc) ==
    [pytype |-> "Boto3Result",
     response |-> response,
     body |-> IF Truthy(response) THEN response ELSE EmptyDict,
     exc |-> exc]

\* Boto3Result.__init__
Boto3Result(response, exc) ==
    IF ~IsDict(response) /\ ~IsException(exc)
    THEN Raise("Boto3InputError", "At least one argument is required")
    ELSE [pytype |-> "Boto3Result",
          response |-> response,
          body |-> IF Truthy(response) THEN response ELSE EmptyDict,
          exc |-> exc]

IsResult(v) == ~IsDict(v) /\ v.pytype = "Boto3Result"

\* Boto3Result.status without str()
StatusRaw(self) ==
    IF ~IsNone(self.response)
    THEN Get(Get(self.response, "ResponseMetadata", EmptyDict), "HTTPStatusCode", NoneV)
    ELSE NoneV

\* Boto3Result.status
Status(self) ==
    IF ~IsNone(self.response)
    THEN IF IsDict(self.response)
         THEN PyStr(StrOf(Get(Get(self.response, "ResponseMetadata", EmptyDict),
                              "HTTPStatusCode", NoneV)))
         ELSE Raise("AttributeError", "object has no attribute 'get'")
    ELSE NoneV

\* str(exc): the argument itself when it is a string (its repr for a KeyError),
\* the repr of the argument otherwise
ExcText(exc) ==
    IF IsPyStr(exc.arg) /\ exc.cls # "KeyError"
    THEN exc.arg
    ELSE [pytype |-> "repr", of |-> exc.arg]

\* the formatted traceback lines of an exception
TracebackLines(exc) == [pytype |-> "traceback", of |-> exc.cls]

\* Boto3Result.error testing the status before the failures
ErrorStatusFirst(self) ==
    LET resp == IF Truthy(self.response) THEN self.response ELSE EmptyDict
    IN  IF Truthy(self.exc)
        THEN [title |-> PyStr(self.exc.cls),
              message |-> ExcText(self.exc),
              traceback |-> TracebackLines(self.exc)]
        ELSE IF /\ Truthy(Status(self))
                /\ StrOf(Status(self)) # "None"
                /\ StrOf(Status(self)) # ToString(HTTPStatusOK)
        THEN [title |-> PyStr("HTTP status not OK: " \o StrOf(Status(self))),
              message |-> [response |-> self.response],
              traceback |-> NoneV]
        ELSE IF Truthy(Get(resp, "failures", NoneV))
        THEN [title |-> PyStr("Response included failures"),
              message |-> Get(resp, "failures", NoneV),
              traceback |-> NoneV]
        ELSE EmptyDict

\* Boto3Result.error
Error(self) ==
    LET resp == IF Truthy(self.response) THEN self.response ELSE EmptyDict
    IN  IF Truthy(self.exc)
        THEN IF IsException(self.exc)
             THEN [title |-> PyStr(self.exc.cls),
                   message |-> ExcText(self.exc),
                   traceback |-> TracebackLines(self.exc)]
             ELSE Raise("AttributeError", "object has no attribute '__traceback__'")
        ELSE IF ~IsDict(resp)
        THEN Raise("AttributeError", "object has no attribute 'get'")
        ELSE IF Truthy(Get(resp, "failures", NoneV))
        THEN [title |-> PyStr("Response included failures"),
              message |-> Get(resp, "failures", NoneV),
              traceback |-> NoneV]
        ELSE IF /\ Truthy(Status(self))
                /\ StrOf(Status(self)) # "None"
                /\ StrOf(Status(self)) # ToString(HTTPStatusOK)
        THEN [title |-> PyStr("HTTP status not OK: " \o StrOf(Status(self))),
              message |-> [response |-> self.response],
              traceback |-> NoneV]
        ELSE EmptyDict

-----------------------------------------------------------------------------
(* invoke *)

\* What a callable does when called: it returns a value or raises.
Returns(v) == [pytype |-> "returns", value |-> v]
Raises(cls, msg) == [pytype |-> "raises", exc |-> PyErr(cls, msg)]

\* invoke without "or {}"
InvokeKeepFalsy(outcome) ==
    IF outcome.pytype = "raises"
    THEN Boto3Result(NoneV, outcome.exc)
    ELSE Boto3Result(outcome.value, NoneV)

\* invoke(boto3_function, **kwargs), given what the one call of boto3_function did
Invoke(outcome) ==
    IF outcome.pytype = "raises"
    THEN Boto3Result(NoneV, outcome.exc)
    ELSE Boto3Result(IF Truthy(outcome.value) THEN outcome.value ELSE EmptyDict, NoneV)

-----------------------------------------------------------------------------
(* Boto3Result and invoke on their own: every combination of arguments *)

\* the number of entries of a 'failures' list a payload may carry
MaxFailures == 1

MetaChoices ==
    {EmptyDict, [HTTPStatusCode |-> NoneV],
     [HTTPStatusCode |-> PyInt(200)], [HTTPStatusCode |-> PyStr("200")],
     [HTTPStatusCode |-> PyInt(429)], [HTTPStatusCode |-> PyStr("429")]}

FailureEntry(i) == [arn |-> PyStr("some_arn" \o ToString(i)), reason |-> PyStr("MISSING")]

FailuresChoices == {PyList([i \in 1..n |-> FailureEntry(i)]) : n \in 0..MaxFailures}

PayloadChoices ==
    {[foo |-> PyStr("bar")], EmptyDict}
    \cup {[ResponseMetadata |-> m] : m \in MetaChoices}
    \cup {[failures |-> f] : f \in FailuresChoices}
    \cup {[ResponseMetadata |-> m, failures |-> f] : m \in MetaChoices, f \in FailuresChoices}

ResponseArgs == {NoneV, PyStr("not a dict")} \cup PayloadChoices

ExcArgs ==
    {NoneV, PyStr("not an exception"),
     PyErr("TestException", "Test exception"), PyErr("Boto3Error", "test_error")}

KwargsChoices ==
    {EmptyDict, [foo |-> PyStr("foo_arg"), bar |-> PyStr("bar_arg"), baz |-> PyStr("baz_arg")]}

CallableChoices ==
    {Raises("Boto3Error", "test_error"), Raises("TestException", "Test exception"),
     Returns(NoneV), Returns(PyInt(0)), Returns(PyStr("")), Returns(PyList(<<>>)),
     Returns(PyStr("not a dict")),
     Returns([somedict |-> PyStr("return_value")])}
    \cup {Returns(p) : p \in PayloadChoices}

\* the calls invoke makes of the callable it is given: one, with the keyword arguments
InvokeCalls(kwargs) == <<kwargs>>

HandlerIdle ==
    /\ event = NoneV
    /\ pc = "off"
    /\ loc = EmptyDict
    /\ calls = <<>>
    /\ logs = <<>>
    /\ handled = <<>>
    /\ hres = NoneV
    /\ ret = NoneV
    /\ raised = NoneV

InitBoto3 ==
    /\ HandlerIdle
    /\ rin \in [response : ResponseArgs, exc : ExcArgs]
    /\ robj = NoneV
    /\ fin \in [does : CallableChoices, kwargs : KwargsChoices]
    /\ fcalls = <<>>
    /\ fres = NoneV

\* Boto3Result(response=rin.response, exc=rin.exc)
Construct ==
    /\ robj = NoneV
    /\ robj' = Boto3Result(rin.response, rin.exc)
    /\ UNCHANGED <<rin, fin, fcalls, fres>>
    /\ UNCHANGED hvars

\* invoke(f, **fin.kwargs), f behaving as fin.does
InvokeOnce ==
    /\ fres = NoneV
    /\ fcalls' = fcalls \o InvokeCalls(fin.kwargs)
    /\ fres' = Invoke(fin.does)
    /\ UNCHANGED <<rin, robj, fin>>
    /\ UNCHANGED hvars

NextBoto3 == Construct \/ InvokeOnce

SpecBoto3 == InitBoto3 /\ [][NextBoto3]_vars

-----------------------------------------------------------------------------
(* Helpers of the handlers *)

\* log(msg, data, level): the record of one call
LogRec(msg, data, level) == [msg |-> msg, data |-> data, level |-> level]

\* log(err_msg["msg"]): the data left out, the level left to its default
LogErrMsgOnly(err_msg) == LogRec(err_msg.msg, NoneV, "debug")

\* log(**err_msg)
LogErr(err_msg) == LogRec(err_msg.msg, err_msg.data, err_msg.level.s)

\* The keys of a dict in iteration order, list(d).  Insertion order is modelled
\* as one fixed order of the key names.
KeyOrder ==
    <<"command", "body", "wrongkey1", "wrongkey2", "cluster", "family", "serviceName",
      "entrypoint", "container_id", "service_id", "cluster_id", "service_ids",
      "image", "secrets">>

Keys(d) == SelectSeq(KeyOrder, LAMBDA k : k \in DOMAIN d)

SeqToSet(q) == {q[i] : i \in 1..Len(q)}

\* The text an f-string builds from the three key lists
MissingText(missing, found, required) ==
    [pytype |-> "fstr", missing |-> missing, found |-> found, required |-> required]

\* _missing_required_keys reporting the first missing key only
missing_required_keys_first(required_keys, found_keys) ==
    LET missing_keys == SelectSeq(required_keys, LAMBDA k : k \notin SeqToSet(found_keys))
    IN  IF missing_keys = <<>>
        THEN Raise("ValueError", "there were no missing keys")
        ELSE [msg |-> PyStr("Required field(s) not found"),
              data |-> MissingText(<<missing_keys[1]>>, found_keys, required_keys),
              level |-> PyStr("critical")]

\* _missing_required_keys(required_keys, found_keys): the dict, or the ValueError
missing_required_keys(required_keys, found_keys) ==
    LET missing_keys == SelectSeq(required_keys, LAMBDA k : k \notin SeqToSet(found_keys))
    IN  IF missing_keys = <<>>
        THEN Raise("ValueError", "there were no missing keys")
        ELSE [msg |-> PyStr("Required field(s) not found"),
              data |-> MissingText(missing_keys, found_keys, required_keys),
              level |-> PyStr("critical")]

\* What a piece of handler code between two remote calls ends with: it reaches
\* the next remote call site, returns a Boto3Result, or lets an exception escape.
StepCall(site, l, lg) ==
    [kind |-> "call", pc |-> site, loc |-> l, logs |-> lg, result |-> NoneV, exc |-> NoneV]
StepReturn(res, l, lg) ==
    [kind |-> "return", pc |-> "done", loc |-> l, logs |-> lg, result |-> res, exc |-> NoneV]
StepRaise(e, l, lg) ==
    [kind |-> "raise", pc |-> "raised", loc |-> l, logs |-> lg, result |-> NoneV, exc |-> e]

KeyErr(k) == PyErr("KeyError", k)
IndexErr == PyErr("IndexError", "list index out of range")
NoGet == PyErr("AttributeError", "object has no attribute 'get'")

-----------------------------------------------------------------------------
(* What the remote API may answer *)

OKMeta == [HTTPStatusCode |-> PyInt(200)]

\* Answers that make Boto3Result.error non-empty, whatever the operation
FaultOutcomes ==
    {Raises("ClientError", "An error occurred"),
     Returns([ResponseMetadata |-> [HTTPStatusCode |-> PyInt(500)]]),
     Returns([ResponseMetadata |-> OKMeta, failures |-> PyList(<<FailureEntry(1)>>)])}

\* the most task ARNs one listing returns
MaxArns == 2

TaskArn(i) == PyStr("arn:task/" \o ToString(i))

\* the lists of task ARNs a listing may return: the sublists of <<1, .., MaxArns>>
ArnLists ==
    {PyList(SelectSeq([i \in 1..MaxArns |-> TaskArn(i)], LAMBDA a : a \in S)) :
        S \in SUBSET {TaskArn(i) : i \in 1..MaxArns}}

ListTasksOutcomes ==
    FaultOutcomes \cup {Returns(EmptyDict)}
    \cup {Returns([taskArns |-> a, ResponseMetadata |-> OKMeta]) : a \in ArnLists}

ContainerDesc(exit) ==
    [containerArn |-> PyStr("arn:container/1"), image |-> PyStr("img:1"),
     lastStatus |-> PyStr("STOPPED"), exitCode |-> PyInt(exit)]

TaskDesc(arn, exit) ==
    [taskArn |-> arn, taskDefinitionArn |-> PyStr("arn:taskdef/fam:1"),
     lastStatus |-> PyStr("STOPPED"), desiredStatus |-> PyStr("STOPPED"),
     startedAt |-> [pytype |-> "datetime", iso |-> "2020-01-01T00:00:00"],
     stopCode |-> PyStr("EssentialContainerExited"),
     stoppedReason |-> PyStr("Essential container in task exited"),
     startedBy |-> PyStr("lambda"), cpu |-> PyStr("256"),
     containers |-> PyList(<<ContainerDesc(exit)>>)]

\* a task description without its 'containers'
BareTaskDesc(arn) == [taskArn |-> arn, lastStatus |-> PyStr("STOPPED")]

DescribeTasksOutcomes(arns) ==
    FaultOutcomes \cup {Returns(EmptyDict)}
    \cup {Returns([tasks |-> PyList([i \in 1..Len(arns) |-> TaskDesc(arns[i], x)]),
                   failures |-> PyList(<<>>), ResponseMetadata |-> OKMeta]) : x \in {0, 1}}
    \cup {Returns([tasks |-> PyList([i \in 1..Len(arns) |-> TaskDesc(arns[i], 0)]),
                   ResponseMetadata |-> OKMeta]),
          Returns([tasks |-> PyList([i \in 1..Len(arns) |-> BareTaskDesc(arns[i])]),
                   failures |-> PyList(<<>>), ResponseMetadata |-> OKMeta]),
          Returns([tasks |-> PyList(<<>>), failures |-> PyList(<<>>),
                   ResponseMetadata |-> OKMeta]),
          \* a task whose container never started: the container has a reason
          \* and no exit code
          Returns([tasks |-> PyList([i \in 1..Len(arns) |->
                        [TaskDesc(arns[i], 0) EXCEPT !.containers = PyList(<<
                            [containerArn |-> PyStr("arn:container/1"),
                             lastStatus |-> PyStr("STOPPED"),
                             reason |-> PyStr("CannotPullContainerError")]>>)]]),
                   failures |-> PyList(<<>>), ResponseMetadata |-> OKMeta])}

-----------------------------------------------------------------------------
(* _healthcheck *)

HealthcheckFilterKeys == {"cluster", "family", "serviceName"}

TaskStatusKeys ==
    {"taskArn", "taskDefinitionArn", "connectivity", "healthStatus", "desiredStatus",
     "lastStatus", "startedAt", "stopCode", "stoppedReason", "executionStoppedAt",
     "failures"}

ContainerStatusKeys ==
    {"containerArn", "image", "lastStatus", "exitCode", "reason", "healthStatus"}

\* value.isoformat() for a datetime, the value itself otherwise
IsoFormat(v) == IF ~IsDict(v) /\ v.pytype = "datetime" THEN PyStr(v.iso) ELSE v

\* one element of task_statuses
TaskStatus(task) ==
    Update([k \in TaskStatusKeys |-> IsoFormat(Get(task, k, NoneV))],
           [containers |-> PyList([i \in 1..Len(task.containers.items) |->
                [k \in ContainerStatusKeys |-> Get(task.containers.items[i], k, NoneV)]])])

\* _healthcheck up to its first remote call
healthcheck(body) ==
    IF ~IsDict(body)
    THEN StepRaise(NoGet, EmptyDict, <<>>)
    ELSE IF ~IsPyStr(Get(body, "cluster", NoneV))
    THEN LET err_msg == missing_required_keys(<<"cluster">>, Keys(body))
         IN  IF IsRaise(err_msg)
             THEN StepRaise(err_msg.exc, EmptyDict, <<>>)
             ELSE StepReturn(Boto3Result(NoneV, PyExc("KeyError", err_msg)), EmptyDict,
                             <<LogErr(err_msg)>>)
    ELSE LET kept == {k \in HealthcheckFilterKeys : Truthy(Get(body, k, NoneV))}
         IN  StepCall("hc_running",
                      [body |-> body, task_filters |-> [k \in kept |-> body[k]]], <<>>)

\* the keyword arguments of a list_tasks call
ListTasksKwargs(l, desired) == Update(l.task_filters, [desiredStatus |-> PyStr(desired)])

\* after r_running = invoke(list_tasks, desiredStatus="RUNNING")
hc_running(r, l) ==
    IF Truthy(Error(r))
    THEN StepReturn(r, l, <<>>)
    ELSE StepCall("hc_stopped", Update(l, [r_running |-> r]), <<>>)

\* running + stopped, without set()
TaskArnConcat(running, stopped) == {running \o stopped}

\* the orders in which list(set(running + stopped)) may enumerate the task ARNs
TaskArnOrders(running, stopped) ==
    LET both == SeqToSet(running \o stopped)
    IN  {q \in [1..Cardinality(both) -> both] : SeqToSet(q) = both}

\* _healthcheck calling describe_tasks whatever task_arns holds
hc_stopped_describe(r, l, task_arns) ==
    IF Truthy(Error(r))
    THEN StepReturn(r, l, <<>>)
    ELSE StepCall("hc_describe",
                  Update(l, [r_stopped |-> r, task_arns |-> PyList(task_arns)]), <<>>)

\* after r_stopped = invoke(list_tasks, desiredStatus="STOPPED"); task_arns is
\* the list built from the two listings
hc_stopped(r, l, task_arns) ==
    IF Truthy(Error(r))
    THEN StepReturn(r, l, <<>>)
    ELSE IF Len(task_arns) > 0
    THEN StepCall("hc_describe",
                  Update(l, [r_stopped |-> r, task_arns |-> PyList(task_arns)]), <<>>)
    ELSE StepReturn(
            Boto3Result([msg |-> PyStr("No task ARNs were found with the given criteria."),
                         data |-> NoneV], NoneV),
            Update(l, [r_stopped |-> r, task_arns |-> PyList(task_arns)]), <<>>)

DescribeTasksKwargs(cluster, arns) == [cluster |-> cluster, tasks |-> arns]

\* after r = invoke(describe_tasks, cluster=..., tasks=task_arns)
hc_describe(r, l) ==
    IF Truthy(Error(r))
    THEN StepReturn(r, l, <<>>)
    ELSE IF "tasks" \notin DOMAIN r.body
    THEN StepRaise(KeyErr("tasks"), l, <<>>)
    ELSE LET tasks == r.body.tasks.items
         IN  IF \E i \in 1..Len(tasks) : "containers" \notin DOMAIN tasks[i]
             THEN StepRaise(KeyErr("containers"), l, <<>>)
             ELSE StepReturn(
                    Boto3Result([tasks |-> PyList([i \in 1..Len(tasks) |->
                                                     TaskStatus(tasks[i])])], NoneV),
                    l, <<>>)

-----------------------------------------------------------------------------
(* Services and task definitions the remote API may describe *)

\* the most services one describe_services call returns
MaxServices == 2

NetConf == [awsvpcConfiguration |-> [subnets |-> PyList(<<PyStr("subnet-1")>>)]]

TaskdefArn(i, rev) == PyStr("arn:taskdef/fam" \o ToString(i) \o ":" \o ToString(rev))

ServiceName(i) == PyStr("svc" \o ToString(i))
ServiceArn(i) == PyStr("arn:service/svc" \o ToString(i))

ServiceDesc(i) ==
    [serviceName |-> ServiceName(i), serviceArn |-> ServiceArn(i),
     taskDefinition |-> TaskdefArn(i, 1), networkConfiguration |-> NetConf]

\* a service description without the fields the handlers read
BareServiceDesc == [status |-> PyStr("ACTIVE")]

\* the lists of services a describe_services call may return: the sublists of
\* <<service 1, .., service MaxServices>>, and a list of one bare description
ServiceLists ==
    {PyList(SelectSeq([i \in 1..MaxServices |-> ServiceDesc(i)], LAMBDA d : d \in S)) :
        S \in SUBSET {ServiceDesc(i) : i \in 1..MaxServices}}
    \cup {PyList(<<BareServiceDesc>>)}

DescribeServicesOutcomes ==
    FaultOutcomes \cup {Returns(EmptyDict)}
    \cup {Returns([services |-> q, failures |-> PyList(<<>>), ResponseMetadata |-> OKMeta]) :
            q \in ServiceLists}

LogOptions(prefix) ==
    ("awslogs-group" :> PyStr("/ecs/app")) @@ ("awslogs-stream-prefix" :> PyStr(prefix))

ContainerDef(name, image) ==
    [name |-> PyStr(name), image |-> PyStr(image),
     command |-> PyList(<<PyStr("serve")>>),
     portMappings |-> PyList(<<[containerPort |-> PyInt(80)]>>),
     logConfiguration |-> [logDriver |-> PyStr("awslogs"), options |-> LogOptions("svc")]]

ContainerDefLists ==
    {PyList(<<>>),
     PyList(<<ContainerDef("web", "img:1")>>),
     PyList(<<ContainerDef("worker", "img:1")>>),
     PyList(<<ContainerDef("worker", "img:1"), ContainerDef("web", "img:2")>>)}

Taskdef(arn, cds) ==
    [taskDefinitionArn |-> arn, family |-> PyStr("fam"), containerDefinitions |-> cds,
     executionRoleArn |-> PyStr("arn:role/exec"), taskRoleArn |-> PyStr("arn:role/task"),
     networkMode |-> PyStr("awsvpc"), cpu |-> PyStr("256"), memory |-> PyStr("512"),
     requiresCompatibilities |-> PyList(<<PyStr("FARGATE")>>)]

\* a task definition that has no task role: the API then omits the key
TaskdefNoRole(arn) ==
    [taskDefinitionArn |-> arn, family |-> PyStr("fam"),
     containerDefinitions |-> PyList(<<ContainerDef("web", "img:1")>>),
     executionRoleArn |-> PyStr("arn:role/exec"),
     networkMode |-> PyStr("awsvpc"), cpu |-> PyStr("256"), memory |-> PyStr("512"),
     requiresCompatibilities |-> PyList(<<PyStr("FARGATE")>>)]

DescribeTaskdefOutcomes(arn) ==
    FaultOutcomes \cup {Returns(EmptyDict)}
    \cup {Returns([taskDefinition |-> Taskdef(arn, cds), ResponseMetadata |-> OKMeta]) :
            cds \in ContainerDefLists}
    \cup {Returns([taskDefinition |-> TaskdefNoRole(arn), ResponseMetadata |-> OKMeta])}

\* the revision a register_task_definition call creates
NewTaskdefArn == PyStr("arn:taskdef/fam:new")

RegisterOutcomes ==
    FaultOutcomes \cup {Returns(EmptyDict)}
    \cup {Returns([taskDefinition |-> [taskDefinitionArn |-> NewTaskdefArn,
                                       family |-> PyStr("fam")],
                   ResponseMetadata |-> OKMeta])}

RunTaskOutcomes ==
    FaultOutcomes \cup {Returns(EmptyDict)}
    \cup {Returns([tasks |-> PyList(<<[taskArn |-> TaskArn(1), lastStatus |-> PyStr("PENDING")]>>),
                   failures |-> PyList(<<>>), ResponseMetadata |-> OKMeta]),
          Returns([tasks |-> PyList(<<>>), failures |-> PyList(<<>>),
                   ResponseMetadata |-> OKMeta])}

\* waiter.wait returns nothing when the task stopped, and raises otherwise: when
\* its attempts are used up, or when a poll fails
WaitTimeout == Raises("WaiterError", "Waiter TasksStopped failed: Max attempts exceeded")

WaitOutcomes ==
    {Returns(NoneV), WaitTimeout,
     Raises("WaiterError", "Waiter TasksStopped failed: An error occurred")}

RegisterKeys ==
    <<"family", "containerDefinitions", "executionRoleArn", "taskRoleArn", "networkMode",
      "cpu", "memory", "requiresCompatibilities">>

\* the first key of keys that d lacks, as a sequence of at most one key
FirstMissing(d, keys) ==
    LET lacking == SelectSeq(keys, LAMBDA k : k \notin DOMAIN d)
    IN  IF lacking = <<>> THEN <<>> ELSE <<lacking[1]>>

-----------------------------------------------------------------------------
(* _generate_container_definition and _runtask *)

NotFoundText(container_name) ==
    [pytype |-> "fstr", text |-> "Definition for container {} not found.",
     container_name |-> container_name]

\* _generate_container_definition(taskdef, container_name, entrypoint): the
\* definition it returns and the task definition as it leaves it (the chosen
\* definition is edited in place), or the exception it raises
generate_container_definition(taskdef, container_name, entrypoint) ==
    LET cds == taskdef.containerDefinitions.items
        hits == {i \in 1..Len(cds) : cds[i].name = container_name}
    IN  IF hits = {}
        THEN IF Len(cds) = 0
             THEN [kind |-> "raise", logs |-> <<>>, taskdef |-> taskdef,
                   exc |-> PyErr("UnboundLocalError",
                                 "local variable 'container_definition' referenced before assignment")]
             ELSE [kind |-> "raise", taskdef |-> taskdef,
                   logs |-> <<LogRec(NotFoundText(container_name), cds[Len(cds)], "critical")>>,
                   exc |-> PyExc("KeyError", NotFoundText(container_name))]
        ELSE LET i == CHOOSE j \in hits : \A k \in hits : j <= k
                 tagged == [cds[i] EXCEPT !.logConfiguration.options =
                                Update(@, "awslogs-stream-prefix" :> PyStr("lambda"))]
                 edited == Update(tagged, [command |-> entrypoint,
                                           portMappings |-> PyList(<<>>)])
             IN  [kind |-> "ok", logs |-> <<>>, container_definition |-> edited,
                  taskdef |-> [taskdef EXCEPT !.containerDefinitions.items[i] = edited]]

RunTaskRequired == {"service_id", "cluster_id"}

\* the orders in which list(required_keys) may enumerate the set
RequiredOrders == {<<"service_id", "cluster_id">>, <<"cluster_id", "service_id">>}

\* value = body.get(key) or ""
GetOrEmpty(body, key) ==
    IF Truthy(Get(body, key, NoneV)) THEN body[key] ELSE PyStr("")

\* _runtask up to its first remote call; required is list(required_keys)
runtask(body, required) ==
    IF ~IsDict(body)
    THEN StepRaise(NoGet, EmptyDict, <<>>)
    ELSE
    LET taskdef_entrypoint == GetOrEmpty(body, "entrypoint")
        validated == {k \in RunTaskRequired :
                        Truthy(GetOrEmpty(body, k)) /\ IsPyStr(GetOrEmpty(body, k))}
        type_msg == [msg |-> PyStr("TypeError"),
                     data |-> PyStr("'entrypoint' key must be of type string"),
                     level |-> PyStr("critical")]
        req_msg == missing_required_keys(required, Keys(body))
        cid_msg == [msg |-> PyStr("container_id required to process entrypoint"),
                    data |-> [pytype |-> "fstr",
                              text |-> "when giving an entrypoint, container_id is required. found keys: {}",
                              found |-> Keys(body)],
                    level |-> PyStr("critical")]
    IN  IF ~IsPyStr(taskdef_entrypoint)
        THEN StepReturn(Boto3Result(NoneV, PyExc("TypeError", type_msg)), EmptyDict,
                        <<LogErr(type_msg)>>)
        ELSE IF RunTaskRequired \ validated # {}
        THEN IF IsRaise(req_msg)
             THEN StepRaise(req_msg.exc, EmptyDict, <<>>)
             ELSE StepReturn(Boto3Result(NoneV, PyExc("KeyError", req_msg)), EmptyDict,
                             <<LogErr(req_msg)>>)
        ELSE IF "entrypoint" \in DOMAIN body /\ "container_id" \notin DOMAIN body
        THEN StepReturn(Boto3Result(NoneV, PyExc("KeyError", cid_msg)), EmptyDict,
                        <<LogErr(cid_msg)>>)
        ELSE StepCall("rt_describe_services",
                      [body |-> body, taskdef_entrypoint |-> taskdef_entrypoint,
                       service_id |-> body.service_id, cluster_id |-> body.cluster_id],
                      <<>>)

RtDescribeServicesKwargs(l) ==
    [cluster |-> l.cluster_id, services |-> PyList(<<l.service_id>>)]

\* after r = invoke(ecs.describe_services, ...)
rt_describe_services(r, l) ==
    IF Truthy(Error(r))
    THEN StepReturn(r, l, <<>>)
    ELSE IF "services" \notin DOMAIN r.body
    THEN StepRaise(KeyErr("services"), l, <<>>)
    ELSE IF Len(r.body.services.items) = 0
    THEN StepRaise(IndexErr, l, <<>>)
    ELSE IF FirstMissing(r.body.services.items[1],
                         <<"networkConfiguration", "taskDefinition">>) # <<>>
    THEN StepRaise(KeyErr(FirstMissing(r.body.services.items[1],
                          <<"networkConfiguration", "taskDefinition">>)[1]), l, <<>>)
    ELSE LET svc == r.body.services.items[1]
             l2 == Update(l, [netconf |-> svc.networkConfiguration,
                              svc_taskdef_arn |-> svc.taskDefinition])
         IN  IF Truthy(l.taskdef_entrypoint)
             THEN StepCall("rt_describe_taskdef",
                           Update(l2, [container_id |-> GetOrEmpty(l.body, "container_id")]),
                           <<>>)
             ELSE StepCall("rt_run_task",
                           Update(l2, [target_taskdef_arn |-> svc.taskDefinition]), <<>>)

\* after r = invoke(ecs.describe_task_definition, taskDefinition=svc_taskdef_arn):
\* up to the call of register_task_definition, whose arguments are built first
rt_describe_taskdef(r, l) ==
    IF Truthy(Error(r))
    THEN StepReturn(r, l, <<>>)
    ELSE IF "taskDefinition" \notin DOMAIN r.body
    THEN StepRaise(KeyErr("taskDefinition"), l, <<>>)
    ELSE IF FirstMissing(r.body.taskDefinition, <<"family", "containerDefinitions">>) # <<>>
    THEN StepRaise(KeyErr(FirstMissing(r.body.taskDefinition,
                                       <<"family", "containerDefinitions">>)[1]), l, <<>>)
    ELSE
    LET service_taskdef == r.body.taskDefinition
        gen == generate_container_definition(service_taskdef, l.container_id,
                                             l.taskdef_entrypoint)
        after == [r EXCEPT !.response.taskDefinition = gen.taskdef,
                           !.body.taskDefinition = gen.taskdef]
        l2 == Update(l, [r_taskdef |-> after, described_taskdef |-> service_taskdef])
        lacking == FirstMissing(service_taskdef, RegisterKeys)
    IN  IF gen.kind = "raise"
        THEN StepRaise(gen.exc, l2, gen.logs)
        ELSE IF lacking # <<>>
        THEN StepRaise(KeyErr(lacking[1]), l2, gen.logs)
        ELSE StepCall("rt_register",
                Update(l2, [register_kwargs |->
                    [family |-> service_taskdef.family,
                     containerDefinitions |-> PyList(<<gen.container_definition>>),
                     executionRoleArn |-> service_taskdef.executionRoleArn,
                     taskRoleArn |-> service_taskdef.taskRoleArn,
                     networkMode |-> service_taskdef.networkMode,
                     cpu |-> service_taskdef.cpu,
                     memory |-> service_taskdef.memory,
                     requiresCompatibilities |-> service_taskdef.requiresCompatibilities]]),
                gen.logs)

\* r.body["taskDefinition"]["taskDefinitionArn"]: the key that is missing, if any
ArnMissing(r) ==
    IF "taskDefinition" \notin DOMAIN r.body THEN <<"taskDefinition">>
    ELSE FirstMissing(r.body.taskDefinition, <<"taskDefinitionArn">>)

\* after r = invoke(ecs.register_task_definition, ...)
rt_register(r, l) ==
    IF Truthy(Error(r))
    THEN StepReturn(r, l, <<>>)
    ELSE IF ArnMissing(r) # <<>>
    THEN StepRaise(KeyErr(ArnMissing(r)[1]), l, <<>>)
    ELSE StepCall("rt_run_task",
                  Update(l, [target_taskdef_arn |-> r.body.taskDefinition.taskDefinitionArn]),
                  <<LogRec(PyStr("Created task definition"),
                           r.body.taskDefinition.taskDefinitionArn, "info")>>)

\* run_task given the service's own task definition whatever was registered
RunTaskKwargsService(l) ==
    [cluster |-> l.cluster_id, taskDefinition |-> l.svc_taskdef_arn,
     launchType |-> PyStr("FARGATE"), networkConfiguration |-> l.netconf,
     startedBy |-> PyStr("lambda")]

RunTaskKwargs(l) ==
    [cluster |-> l.cluster_id, taskDefinition |-> l.target_taskdef_arn,
     launchType |-> PyStr("FARGATE"), networkConfiguration |-> l.netconf,
     startedBy |-> PyStr("lambda")]

\* after r = invoke(ecs.run_task, ...)
rt_run_task(r, l) ==
    IF Truthy(Error(r))
    THEN StepReturn(r, l, <<>>)
    ELSE IF "tasks" \notin DOMAIN r.body
    THEN StepRaise(KeyErr("tasks"), l, <<>>)
    ELSE IF Len(r.body.tasks.items) = 0
    THEN StepRaise(IndexErr, l, <<>>)
    ELSE IF "taskArn" \notin DOMAIN r.body.tasks.items[1]
    THEN StepRaise(KeyErr("taskArn"), l, <<>>)
    ELSE StepCall("rt_wait", Update(l, [new_task_arn |-> r.body.tasks.items[1].taskArn]),
                  <<LogRec(PyStr("Running task"), r.body.tasks.items[1].taskArn, "info")>>)

TaskWaitDelay == 15
TaskWaitAttempts == 40

\* the keyword arguments without a WaiterConfig: the waiter's own defaults apply
TaskWaitKwargsDefault(cluster, task_arn) ==
    [cluster |-> cluster, tasks |-> PyList(<<task_arn>>)]

\* the keyword arguments _task_wait gives waiter.wait
TaskWaitKwargs(cluster, task_arn) ==
    [cluster |-> cluster, tasks |-> PyList(<<task_arn>>),
     WaiterConfig |-> [Delay |-> PyInt(TaskWaitDelay), MaxAttempts |-> PyInt(TaskWaitAttempts)]]

\* _task_wait returns the result of its invoke
task_wait(r) == r

\* _runtask going on after _task_wait whatever it returned
rt_wait_unchecked(r, l) ==
    StepCall("rt_describe_tasks", l,
             <<LogRec(PyStr("Finished waiting for task execution"), l.new_task_arn, "info")>>)

\* after r = _task_wait(...)
rt_wait(r, l) ==
    IF Truthy(Error(task_wait(r)))
    THEN StepReturn(task_wait(r), l, <<>>)
    ELSE StepCall("rt_describe_tasks", l,
                  <<LogRec(PyStr("Finished waiting for task execution"),
                           l.new_task_arn, "info")>>)

RunTaskStatusKeys == {"stopCode", "stoppedReason", "startedBy", "taskArn"}

\* after r = invoke(ecs.describe_tasks, cluster=cluster_id, tasks=[new_task_arn])
rt_describe_tasks(r, l) ==
    IF Truthy(Error(r))
    THEN StepReturn(r, l, <<>>)
    ELSE IF "failures" \notin DOMAIN r.body
    THEN StepRaise(KeyErr("failures"), l, <<>>)
    ELSE IF Truthy(r.body.failures)
    THEN StepReturn(
            Boto3Result(NoneV,
                PyExc("Exception",
                      [pytype |-> "tuple",
                       text |-> "ecs.describeTask call returned errors on {}",
                       new_task_arn |-> l.new_task_arn,
                       failures |-> r.body.failures])), l, <<>>)
    ELSE IF "tasks" \notin DOMAIN r.body
    THEN StepRaise(KeyErr("tasks"), l, <<>>)
    ELSE IF Len(r.body.tasks.items) = 0
    THEN StepRaise(IndexErr, l, <<>>)
    ELSE IF "containers" \notin DOMAIN r.body.tasks.items[1]
    THEN StepRaise(KeyErr("containers"), l, <<>>)
    ELSE IF Len(r.body.tasks.items[1].containers.items) = 0
    THEN StepRaise(IndexErr, l, <<>>)
    ELSE IF "exitCode" \notin DOMAIN r.body.tasks.items[1].containers.items[1]
    THEN StepRaise(KeyErr("exitCode"), l, <<>>)
    ELSE
    LET task_description == r.body.tasks.items[1]
        container_description == task_description.containers.items[1]
        task_status ==
            Update([k \in RunTaskStatusKeys \cap DOMAIN task_description |->
                        task_description[k]],
                   [exitCode |-> container_description.exitCode])
    IN  StepReturn(
            Boto3Result([ResponseMetadata |-> [HTTPStatusCode |-> PyInt(200)],
                         taskArn |-> l.new_task_arn,
                         taskDefinitionArn |-> l.target_taskdef_arn,
                         taskStatus |-> task_status], NoneV), l, <<>>)

-----------------------------------------------------------------------------
(* Stored parameters, _map_ecs_ssm_parameters and _deploy *)

\* the number of stored parameters under /app/
MaxParams == 2

ParamName(i) == PyStr("/app/p" \o ToString(i))
OtherParamName == PyStr("/other/x")

StoredParam(name) == [Name |-> name, Type |-> PyStr("SecureString")]

\* the stored parameters, in the order the paginator yields them
StoredParams == [i \in 1..MaxParams |-> StoredParam(ParamName(i))] \o <<StoredParam(OtherParamName)>>

\* What iterating paginator.paginate() does: it yields pages or raises.  The
\* pages hold the stored parameters, all in one page or split over two; a page
\* may lack its 'Parameters'.
PaginateOutcomes ==
    {Raises("ClientError", "An error occurred"),
     Returns(PyList(<<[Parameters |-> PyList(StoredParams)]>>)),
     Returns(PyList(<<[Parameters |-> PyList(SubSeq(StoredParams, 1, 1))],
                      [Parameters |-> PyList(SubSeq(StoredParams, 2, Len(StoredParams)))]>>)),
     Returns(PyList(<<[NextToken |-> PyStr("t")]>>))}

\* re.compile taking any pattern
AnyPattern(pattern) == TRUE

\* re.compile(pattern) succeeds
ValidPattern(pattern) == pattern # PyStr("[")

\* re.compile(pattern).fullmatch(name) matches, for the patterns of SecretsChoices
FullMatch(pattern, name) ==
    IF pattern = PyStr("/app/.*")
    THEN name \in {ParamName(i) : i \in 1..MaxParams}
    ELSE pattern = name

EnvTag(value) == [Key |-> PyStr("ENV_VAR_NAME"), Value |-> value]
OwnerTag == [Key |-> PyStr("owner"), Value |-> PyStr("team")]

ListTagsOutcomes(name) ==
    FaultOutcomes \cup {Returns(EmptyDict)}
    \cup {Returns([TagList |-> PyList(<<OwnerTag>>), ResponseMetadata |-> OKMeta]),
          Returns([TagList |-> PyList(<<OwnerTag, EnvTag(PyStr("VAR:" \o name.s))>>),
                   ResponseMetadata |-> OKMeta]),
          Returns([TagList |-> PyList(<<EnvTag(PyStr(""))>>), ResponseMetadata |-> OKMeta])}

UpdateServiceOutcomes(service_name) ==
    FaultOutcomes \cup {Returns(EmptyDict)}
    \cup {Returns([service |-> [serviceName |-> service_name,
                                serviceArn |-> PyStr("arn:service/" \o service_name.s)],
                   ResponseMetadata |-> OKMeta])}

ListTagsKwargs(parameter) ==
    [ResourceType |-> PyStr("Parameter"), ResourceId |-> Get(parameter, "Name", NoneV)]

\* the body of the loop of _map_ecs_ssm_parameters for one parameter whose tags
\* were listed without error
TagParameter(parameter, r) ==
    LET tags == Get(r.body, "TagList", PyList(<<>>))
        tag_list == SelectSeq(tags.items, LAMBDA tag : Get(tag, "Key", NoneV) = PyStr("ENV_VAR_NAME"))
        tagged == Update(parameter, [Tags |-> tags])
    IN  IF Len(tag_list) > 0
        THEN Update(tagged, [ENV_VAR_NAME |-> Get(tag_list[1], "Value", NoneV)])
        ELSE tagged

\* env_var_map of _map_ecs_ssm_parameters
EnvVarMap(stored_parameters) ==
    LET kept == SelectSeq(stored_parameters, LAMBDA p : Truthy(Get(p, "ENV_VAR_NAME", NoneV)))
    IN  PyList([i \in 1..Len(kept) |->
                  [name |-> Get(kept[i], "ENV_VAR_NAME", PyStr("")),
                   valueFrom |-> Get(kept[i], "Name", PyStr(""))]])

\* the Boto3Result _map_ecs_ssm_parameters ends with when no call failed
map_ecs_ssm_parameters(stored_parameters) ==
    Boto3Result([map |-> EnvVarMap(stored_parameters)], NoneV)

\* _deploy up to its first remote call
deploy(body) ==
    IF ~IsDict(body)
    THEN StepRaise(NoGet, EmptyDict, <<>>)
    ELSE
    LET cluster_id == Get(body, "cluster_id", NoneV)
        service_ids == Get(body, "service_ids", NoneV)
        image == Get(body, "image", NoneV)
        secrets == Get(body, "secrets", NoneV)
        err_msg == missing_required_keys(<<"cluster_id", "service_ids">>, Keys(body))
        l == [body |-> body, cluster_id |-> cluster_id, service_ids |-> service_ids,
              image |-> image, secrets |-> secrets]
    IN  IF IsNone(cluster_id) \/ IsNone(service_ids)
        THEN IF IsRaise(err_msg)
             THEN StepRaise(err_msg.exc, EmptyDict, <<>>)
             ELSE StepReturn(Boto3Result(NoneV, PyExc("KeyError", err_msg)), EmptyDict,
                             <<LogErr(err_msg)>>)
        ELSE IF Truthy(secrets) /\ ~IsPyList(secrets)
        THEN StepReturn(Boto3Result(NoneV, PyErr("TypeError", "secrets value must be of type list")),
                        l, <<>>)
        ELSE IF Truthy(secrets)
        THEN IF \E i \in 1..Len(secrets.items) : ~ValidPattern(secrets.items[i])
             THEN StepReturn(Boto3Result(NoneV, PyErr("error", "unterminated character set at position 0")),
                             l, <<>>)
             ELSE StepCall("dp_paginate", l, <<>>)
        ELSE StepCall("dp_describe_services", l, <<>>)

\* after paginator.paginate() was iterated, doing what outcome says
dp_paginate(outcome, l) ==
    IF outcome.pytype = "raises"
    THEN StepRaise(outcome.exc, l, <<>>)
    ELSE
    LET pages == outcome.value.items
        Matching(page) ==
            SelectSeq(page.Parameters.items,
                      LAMBDA p : \E i \in 1..Len(l.secrets.items) :
                                    FullMatch(l.secrets.items[i], Get(p, "Name", NoneV)))
        Collect[n \in 0..Len(pages)] ==
            IF n = 0 THEN <<>> ELSE Collect[n - 1] \o Matching(pages[n])
        ssm_parameters == Collect[Len(pages)]
    IN  IF \E n \in 1..Len(pages) : "Parameters" \notin DOMAIN pages[n]
        THEN StepRaise(PyErr("TypeError", "'NoneType' object is not iterable"), l, <<>>)
        ELSE IF Len(ssm_parameters) = 0
        THEN IF Truthy(Error(map_ecs_ssm_parameters(ssm_parameters)))
             THEN StepReturn(map_ecs_ssm_parameters(ssm_parameters), l, <<>>)
             ELSE StepCall("dp_describe_services",
                           Update(l, [ssm_parameters |-> ssm_parameters,
                                      secrets_map |-> map_ecs_ssm_parameters(ssm_parameters).body.map]),
                           <<>>)
        ELSE StepCall("dp_list_tags",
                      Update(l, [ssm_parameters |-> ssm_parameters, param_idx |-> 1]), <<>>)

\* after r = invoke(ssm_client.list_tags_for_resource, ...) for parameter param_idx
dp_list_tags(r, l) ==
    IF Truthy(Error(r))
    THEN StepReturn(r, l, <<>>)
    ELSE
    LET params == [l.ssm_parameters EXCEPT ![l.param_idx] = TagParameter(@, r)]
        mapped == map_ecs_ssm_parameters(params)
    IN  IF l.param_idx < Len(params)
        THEN StepCall("dp_list_tags",
                      Update(l, [ssm_parameters |-> params, param_idx |-> l.param_idx + 1]),
                      <<>>)
        ELSE IF Truthy(Error(mapped))
        THEN StepReturn(mapped, Update(l, [ssm_parameters |-> params]), <<>>)
        ELSE StepCall("dp_describe_services",
                      Update(l, [ssm_parameters |-> params, secrets_map |-> mapped.body.map]),
                      <<>>)

DpDescribeServicesKwargs(l) == [cluster |-> l.cluster_id, services |-> l.service_ids]

IsTarget(svc, service_ids) ==
    \/ svc.serviceName \in SeqToSet(service_ids.items)
    \/ svc.serviceArn \in SeqToSet(service_ids.items)

\* after r = invoke(ecs_client.describe_services, ...)
dp_describe_services(r, l) ==
    IF Truthy(Error(r))
    THEN StepReturn(r, l, <<>>)
    ELSE IF "services" \notin DOMAIN r.body
    THEN StepRaise(KeyErr("services"), l, <<>>)
    ELSE IF \E i \in 1..Len(r.body.services.items) :
                "serviceName" \notin DOMAIN r.body.services.items[i]
    THEN StepRaise(KeyErr("serviceName"), l, <<>>)
    ELSE
    LET target_services == SelectSeq(r.body.services.items,
                                     LAMBDA svc : IsTarget(svc, l.service_ids))
    IN  IF Len(target_services) = 0
        THEN StepRaise(PyErr("UnboundLocalError",
                             "local variable 'new_taskdef_arn' referenced before assignment"),
                       Update(l, [target_services |-> target_services,
                                  updated_services |-> <<>>]), <<>>)
        ELSE StepCall("dp_describe_taskdef",
                      Update(l, [target_services |-> target_services,
                                 updated_services |-> <<>>, svc_idx |-> 1]), <<>>)

\* the container definition with the secrets of _deploy and the image left alone
EditSecretsOnly(containerdef, l) ==
    IF Truthy(l.secrets) THEN Update(containerdef, [secrets |-> l.secrets_map]) ELSE containerdef

\* the container definition with the edits of _deploy
EditContainerdef(containerdef, l) ==
    LET with_secrets == IF Truthy(l.secrets)
                        THEN Update(containerdef, [secrets |-> l.secrets_map])
                        ELSE containerdef
    IN  IF Truthy(l.image) THEN Update(with_secrets, [image |-> l.image]) ELSE with_secrets

\* the deep copy of the task definition with every container definition edited
EditTaskdef(taskdef, l) ==
    [taskdef EXCEPT !.containerDefinitions.items =
        [i \in 1..Len(@) |-> EditContainerdef(@[i], l)]]

\* _deploy registering a new revision whether or not the copy differs
AlwaysRegister(taskdef, original) == TRUE

\* _deploy registers a new revision exactly when the edited copy differs
NeedsRegister(taskdef, original) == taskdef # original

\* the keyword arguments register_task_definition(ecs_client, taskdef) passes on
RegisterKwargs(taskdef) == [k \in SeqToSet(RegisterKeys) |-> taskdef[k]]

\* after r = invoke(ecs_client.describe_task_definition, ...) for service svc_idx
dp_describe_taskdef(r, l) ==
    IF Truthy(Error(r))
    THEN StepReturn(r, l, <<>>)
    ELSE IF "taskDefinition" \notin DOMAIN r.body
    THEN StepRaise(KeyErr("taskDefinition"), l, <<>>)
    ELSE IF "containerDefinitions" \notin DOMAIN r.body.taskDefinition
    THEN StepRaise(KeyErr("containerDefinitions"), l, <<>>)
    ELSE
    LET taskdef == EditTaskdef(r.body.taskDefinition, l)
        l2 == Update(l, [r_taskdef |-> r, taskdef |-> taskdef])
        lacking == FirstMissing(taskdef, RegisterKeys)
        note == <<LogRec(PyStr("Re-deploying service with updated container definitions"),
                         [taskdef |-> taskdef,
                          service_containerdefs |-> taskdef.containerDefinitions,
                          executionRoleArn |-> taskdef.executionRoleArn], "info")>>
    IN  IF NeedsRegister(taskdef, r.body.taskDefinition)
        THEN IF "executionRoleArn" \notin DOMAIN taskdef
             THEN StepRaise(KeyErr("executionRoleArn"), l2, <<>>)
             ELSE IF lacking # <<>>
             THEN StepRaise(KeyErr(lacking[1]), l2, note)
             ELSE StepCall("dp_register",
                           Update(l2, [register_kwargs |-> RegisterKwargs(taskdef)]), note)
        ELSE IF ArnMissing(r) # <<>>
        THEN StepRaise(KeyErr(ArnMissing(r)[1]), l2, <<>>)
        ELSE StepCall("dp_update_service",
                      Update(l2, [new_taskdef_arn |-> r.body.taskDefinition.taskDefinitionArn]),
                      <<>>)

\* after r = register_task_definition(ecs_client, taskdef)
dp_register(r, l) ==
    IF Truthy(Error(r))
    THEN StepReturn(r, l, <<>>)
    ELSE IF ArnMissing(r) # <<>>
    THEN StepRaise(KeyErr(ArnMissing(r)[1]), l, <<>>)
    ELSE StepCall("dp_update_service",
                  Update(l, [new_taskdef_arn |-> r.body.taskDefinition.taskDefinitionArn]),
                  <<LogRec(PyStr("Registered task definition"),
                           r.body.taskDefinition.taskDefinitionArn, "info")>>)

PyBool(b) == [pytype |-> "bool", b |-> b]

\* the keyword arguments update_service(...) passes on
update_service(service_name, cluster_id, taskdef_id, force_new_deployment) ==
    [cluster |-> cluster_id, service |-> service_name, taskDefinition |-> taskdef_id,
     forceNewDeployment |-> PyBool(force_new_deployment)]

UpdateServiceKwargs(l) ==
    update_service(l.target_services[l.svc_idx].serviceName, l.cluster_id,
                   l.new_taskdef_arn, TRUE)

\* _deploy going on to the next service when update_service returned an error
dp_update_service_keep_going(r, l) ==
    IF Truthy(Error(r)) /\ l.svc_idx < Len(l.target_services)
    THEN StepCall("dp_describe_taskdef", Update(l, [svc_idx |-> l.svc_idx + 1]), <<>>)
    ELSE IF Truthy(Error(r))
    THEN StepReturn(r, l, <<>>)
    ELSE IF "service" \notin DOMAIN r.body
    THEN StepRaise(KeyErr("service"), l, <<>>)
    ELSE IF "serviceArn" \notin DOMAIN r.body.service
    THEN StepRaise(KeyErr("serviceArn"), l, <<>>)
    ELSE
    LET updated == Append(l.updated_services, r.body.service.serviceArn)
        l2 == Update(l, [updated_services |-> updated])
        note == <<LogRec(PyStr("Updated service"), r.body.service.serviceArn, "info")>>
    IN  IF l.svc_idx < Len(l.target_services)
        THEN StepCall("dp_describe_taskdef", Update(l2, [svc_idx |-> l.svc_idx + 1]), note)
        ELSE StepReturn(
                Boto3Result([ResponseMetadata |-> [HTTPStatusCode |-> PyInt(200)],
                             UpdatedServiceArns |-> PyList(updated),
                             NewTaskdefArn |-> l.new_taskdef_arn], NoneV), l2, note)

\* after r = update_service(...) for service svc_idx
dp_update_service(r, l) ==
    IF Truthy(Error(r))
    THEN StepReturn(r, l, <<>>)
    ELSE IF "service" \notin DOMAIN r.body
    THEN StepRaise(KeyErr("service"), l, <<>>)
    ELSE IF "serviceArn" \notin DOMAIN r.body.service
    THEN StepRaise(KeyErr("serviceArn"), l, <<>>)
    ELSE
    LET updated == Append(l.updated_services, r.body.service.serviceArn)
        l2 == Update(l, [updated_services |-> updated])
        note == <<LogRec(PyStr("Updated service"), r.body.service.serviceArn, "info")>>
    IN  IF l.svc_idx < Len(l.target_services)
        THEN StepCall("dp_describe_taskdef", Update(l2, [svc_idx |-> l.svc_idx + 1]), note)
        ELSE StepReturn(
                Boto3Result([ResponseMetadata |-> [HTTPStatusCode |-> PyInt(200)],
                             UpdatedServiceArns |-> PyList(updated),
                             NewTaskdefArn |-> l.new_taskdef_arn], NoneV), l2, note)

-----------------------------------------------------------------------------
(* lambda_handler *)

\* the keys of __DISPATCH__, in the order of list(__DISPATCH__)
DISPATCH == <<"runtask", "deploy", "healthcheck">>

\* hash(v) works: a list or a dict cannot be looked up in a dict
Hashable(v) == ~IsDict(v) /\ v.pytype # "list"

\* command in __DISPATCH__
InDispatch(command) == IsPyStr(command) /\ command.s \in SeqToSet(DISPATCH)

\* __DISPATCH__[command](body), up to the handler's first remote call
Dispatch(command, body, required) ==
    CASE command.s = "runtask" -> runtask(body, required)
      [] command.s = "deploy" -> deploy(body)
      [] command.s = "healthcheck" -> healthcheck(body)

NotRecognized(command) ==
    [msg |-> [pytype |-> "fstr", text |-> "Command not recognized: '{}'.", command |-> command],
     data |-> [pytype |-> "fstr", text |-> "Must be one of: {}", valid |-> DISPATCH],
     level |-> PyStr("critical")]

\* the greatest elapsed time, in ms, the clock may show
MaxElapsedMs == 1

\* "{} ms".format(round(1000 * (time.time() - start_t), 2))
Duration(ms) == PyStr(ToString(ms) \o " ms")

\* result.body, whatever result.error
BodyOnly(result) == result.body

\* result.error or result.body
ErrorOrBody(result) == IF Truthy(Error(result)) THEN Error(result) ELSE result.body

\* the response lambda_handler builds from the handler's result
Response(command, body, result) ==
    Update([request_payload |-> [command |-> command, body |-> body]], ErrorOrBody(result))

\* what lambda_handler returns after a handler returned result
Envelope(command, body, result, ms) ==
    [msg |-> PyStr("response received"),
     data |-> [response |-> Response(command, body, result), duration |-> Duration(ms)]]

\* what lambda_handler returns on a validation failure
FaultReturn(err_msg) == err_msg

\* lambda_handler before the handler runs: the fault it returns, the exception
\* that escapes, or the handler to run
Validate(ev) ==
    IF "command" \notin DOMAIN ev \/ "body" \notin DOMAIN ev
    THEN [kind |-> "fault", err_msg |-> missing_required_keys(<<"command", "body">>, Keys(ev))]
    ELSE IF ~Hashable(ev.command)
    THEN [kind |-> "raise", exc |-> PyErr("TypeError", "unhashable type")]
    ELSE IF ~InDispatch(ev.command)
    THEN [kind |-> "fault", err_msg |-> NotRecognized(ev.command)]
    ELSE [kind |-> "dispatch"]

Received(ev) == LogRec(PyStr("event received"), ev, "info")

\* The rest of the invocation once a piece of handler code ended with step,
\* having made the remote calls made and logged pre before
Commit(step, made, pre) ==
    /\ calls' = calls \o made
    /\ loc' = step.loc
    /\ pc' = step.pc
    /\ CASE step.kind = "call" ->
              /\ logs' = logs \o pre \o step.logs
              /\ UNCHANGED <<hres, ret, raised>>
         [] step.kind = "raise" ->
              /\ logs' = logs \o pre \o step.logs
              /\ raised' = step.exc
              /\ UNCHANGED <<hres, ret>>
         [] step.kind = "return" ->
              \E ms \in 0..MaxElapsedMs :
                 LET out == Envelope(event.command, event.body, step.result, ms)
                 IN  /\ logs' = logs \o pre \o step.logs \o <<LogRec(out.msg, out.data, "info")>>
                     /\ hres' = step.result
                     /\ ret' = out
                     /\ UNCHANGED raised

\* lambda_handler(event), up to the handler's first remote call
LambdaHandler ==
    /\ pc = "start"
    /\ UNCHANGED <<event, bvars>>
    /\ LET v == Validate(event)
       IN  CASE v.kind = "fault" ->
                  /\ logs' = <<Received(event), LogErr(v.err_msg)>>
                  /\ ret' = FaultReturn(v.err_msg)
                  /\ pc' = "done"
                  /\ UNCHANGED <<loc, calls, handled, hres, raised>>
             [] v.kind = "raise" ->
                  /\ logs' = <<Received(event)>>
                  /\ raised' = v.exc
                  /\ pc' = "raised"
                  /\ UNCHANGED <<loc, calls, handled, hres, ret>>
             [] v.kind = "dispatch" ->
                  /\ handled' = Append(handled, [command |-> event.command, body |-> event.body])
                  /\ \E required \in RequiredOrders :
                        Commit(Dispatch(event.command, event.body, required), <<>>,
                               <<Received(event)>>)

\* one remote call made through invoke at a call site: the call, its outcome o
\* and the step the handler's code takes after it
Remote(site, op, kwargs, o, step) ==
    /\ pc = site
    /\ UNCHANGED <<event, handled, bvars>>
    /\ Commit(step, <<[op |-> op, kwargs |-> kwargs, result |-> Invoke(o)]>>, <<>>)

HcRunning ==
    /\ pc = "hc_running"
    /\ \E o \in ListTasksOutcomes :
          Remote("hc_running", "list_tasks",
                 ListTasksKwargs(loc, "RUNNING"),
                 o, hc_running(Invoke(o), loc))

HcStopped ==
    /\ pc = "hc_stopped"
    /\ UNCHANGED <<event, handled, bvars>>
    /\ \E o \in ListTasksOutcomes :
          \E task_arns \in TaskArnOrders(Get(loc.r_running.body, "taskArns", PyList(<<>>)).items,
                                         Get(Invoke(o).body, "taskArns", PyList(<<>>)).items) :
             Commit(hc_stopped(Invoke(o), loc, task_arns),
                    <<[op |-> "list_tasks", kwargs |-> ListTasksKwargs(loc, "STOPPED"),
                       result |-> Invoke(o)]>>, <<>>)

HcDescribe ==
    /\ pc = "hc_describe"
    /\ \E o \in DescribeTasksOutcomes(loc.task_arns.items) :
          Remote("hc_describe", "describe_tasks",
                 DescribeTasksKwargs(Get(loc.body, "cluster", NoneV), loc.task_arns),
                 o, hc_describe(Invoke(o), loc))

RtDescribeServices ==
    /\ pc = "rt_describe_services"
    /\ \E o \in DescribeServicesOutcomes :
          Remote("rt_describe_services", "describe_services",
                 RtDescribeServicesKwargs(loc),
                 o, rt_describe_services(Invoke(o), loc))

RtDescribeTaskdef ==
    /\ pc = "rt_describe_taskdef"
    /\ \E o \in DescribeTaskdefOutcomes(loc.svc_taskdef_arn) :
          Remote("rt_describe_taskdef", "describe_task_definition",
                 [taskDefinition |-> loc.svc_taskdef_arn],
                 o, rt_describe_taskdef(Invoke(o), loc))

RtRegister ==
    /\ pc = "rt_register"
    /\ \E o \in RegisterOutcomes :
          Remote("rt_register", "register_task_definition",
                 loc.register_kwargs,
                 o, rt_register(Invoke(o), loc))

RtRunTask ==
    /\ pc = "rt_run_task"
    /\ \E o \in RunTaskOutcomes :
          Remote("rt_run_task", "run_task",
                 RunTaskKwargs(loc),
                 o, rt_run_task(Invoke(o), loc))

\* the polls the waiter has made so far in this wait
NumAttempts(l) == Get(l, "num_attempts", 0)

\* the ways the waiter's next poll can end the wait: the task has stopped, the
\* poll fails, or the task still runs and this was the last attempt
WaitEnds(l) ==
    {o \in WaitOutcomes : o = WaitTimeout => NumAttempts(l) + 1 >= TaskWaitAttempts}

\* a poll of the waiter that finds the task still running, with attempts left:
\* the waiter sleeps for Delay seconds and polls again
RtWaitPoll ==
    /\ pc = "rt_wait"
    /\ NumAttempts(loc) + 1 < TaskWaitAttempts
    /\ loc' = Update(loc, [num_attempts |-> NumAttempts(loc) + 1])
    /\ UNCHANGED <<event, pc, calls, logs, handled, hres, ret, raised, bvars>>

\* the poll that ends the wait, and _runtask after it
RtWait ==
    /\ pc = "rt_wait"
    /\ \E o \in WaitEnds(loc) :
          Remote("rt_wait", "wait",
                 TaskWaitKwargs(loc.cluster_id, loc.new_task_arn),
                 o, rt_wait(Invoke(o), [k \in DOMAIN loc \ {"num_attempts"} |-> loc[k]]))

RtDescribeTasks ==
    /\ pc = "rt_describe_tasks"
    /\ \E o \in DescribeTasksOutcomes(<<loc.new_task_arn>>) :
          Remote("rt_describe_tasks", "describe_tasks",
                 DescribeTasksKwargs(loc.cluster_id, PyList(<<loc.new_task_arn>>)),
                 o, rt_describe_tasks(Invoke(o), loc))

\* the paginator is iterated directly, not through invoke
DpPaginate ==
    /\ pc = "dp_paginate"
    /\ UNCHANGED <<event, handled, bvars>>
    /\ \E o \in PaginateOutcomes :
          Commit(dp_paginate(o, loc),
                 <<[op |-> "describe_parameters", kwargs |-> EmptyDict, result |-> NoneV]>>,
                 <<>>)

DpListTags ==
    /\ pc = "dp_list_tags"
    /\ \E o \in ListTagsOutcomes(loc.ssm_parameters[loc.param_idx].Name) :
          Remote("dp_list_tags", "list_tags_for_resource",
                 ListTagsKwargs(loc.ssm_parameters[loc.param_idx]),
                 o, dp_list_tags(Invoke(o), loc))

DpDescribeServices ==
    /\ pc = "dp_describe_services"
    /\ \E o \in DescribeServicesOutcomes :
          Remote("dp_describe_services", "describe_services",
                 DpDescribeServicesKwargs(loc),
                 o, dp_describe_services(Invoke(o), loc))

DpDescribeTaskdef ==
    /\ pc = "dp_describe_taskdef"
    /\ \E o \in DescribeTaskdefOutcomes(loc.target_services[loc.svc_idx].taskDefinition) :
          Remote("dp_describe_taskdef", "describe_task_definition",
                 [taskDefinition |-> loc.target_services[loc.svc_idx].taskDefinition],
                 o, dp_describe_taskdef(Invoke(o), loc))

DpRegister ==
    /\ pc = "dp_register"
    /\ \E o \in RegisterOutcomes :
          Remote("dp_register", "register_task_definition",
                 loc.register_kwargs,
                 o, dp_register(Invoke(o), loc))

DpUpdateService ==
    /\ pc = "dp_update_service"
    /\ \E o \in UpdateServiceOutcomes(loc.target_services[loc.svc_idx].serviceName) :
          Remote("dp_update_service", "update_service",
                 UpdateServiceKwargs(loc),
                 o, dp_update_service(Invoke(o), loc))

-----------------------------------------------------------------------------
(* The events *)

HealthcheckBodies ==
    {[cluster |-> PyStr("c1")],
     [cluster |-> PyStr("c1"), family |-> PyStr("fam"), serviceName |-> PyStr("")],
     [cluster |-> NoneV],
     [cluster |-> PyStr("")],
     [family |-> PyStr("fam")]}

RunTaskBodies ==
    {[service_id |-> PyStr("svc1"), cluster_id |-> PyStr("c1")],
     [service_id |-> PyStr("svc1"), cluster_id |-> PyStr("c1"),
      entrypoint |-> PyStr("migrate"), container_id |-> PyStr("web")],
     [service_id |-> PyStr("svc1"), cluster_id |-> PyStr("c1"),
      entrypoint |-> PyStr("migrate")],
     [service_id |-> PyStr("svc1"), cluster_id |-> PyStr("c1"), entrypoint |-> PyStr("")],
     [entrypoint |-> PyList(<<PyInt(1), PyInt(2), PyInt(3)>>)],
     [service_id |-> PyStr("svc1"), cluster_id |-> PyStr("c1"),
      entrypoint |-> PyList(<<PyInt(1), PyInt(2), PyInt(3)>>), container_id |-> PyStr("web")],
     [service_id |-> PyStr("svc1"), cluster_id |-> PyStr("c1"),
      entrypoint |-> PyList(<<>>), container_id |-> PyStr("web")],
     [cluster_id |-> PyStr("c1"), entrypoint |-> PyStr("migrate"),
      container_id |-> PyStr("web")],
     [service_id |-> PyStr("svc1")],
     [service_id |-> PyStr(""), cluster_id |-> PyStr("c1")]}

TwoServices == PyList(<<ServiceName(1), ServiceArn(2)>>)

DeployBodies ==
    {[cluster_id |-> PyStr("c1"), service_ids |-> PyList(<<ServiceName(1)>>)],
     [cluster_id |-> PyStr("c1"), service_ids |-> TwoServices, image |-> PyStr("img:2")],
     [cluster_id |-> PyStr("c1"), service_ids |-> PyList(<<ServiceName(1)>>),
      image |-> PyStr("img:1")],
     [cluster_id |-> PyStr("c1"), service_ids |-> TwoServices,
      secrets |-> PyList(<<PyStr("/app/.*")>>)],
     [cluster_id |-> PyStr("c1"), service_ids |-> PyList(<<ServiceName(1)>>),
      secrets |-> PyList(<<PyStr("/app/p1"), PyStr("[")>>)],
     [cluster_id |-> PyStr("c1"), service_ids |-> PyList(<<ServiceName(1)>>),
      secrets |-> PyStr("/app/.*")],
     [cluster_id |-> PyStr("c1"), service_ids |-> PyList(<<ServiceName(1)>>),
      secrets |-> PyStr("")],
     [cluster_id |-> PyStr("c1")],
     [cluster_id |-> NoneV, service_ids |-> PyList(<<ServiceName(1)>>)]}

BodyChoices ==
    {EmptyDict, PyStr("mybody")} \cup HealthcheckBodies \cup RunTaskBodies \cup DeployBodies

CommandChoices ==
    {PyStr("runtask"), PyStr("deploy"), PyStr("healthcheck"), PyStr("mycommand"),
     PyList(<<PyStr("runtask")>>)}

EventChoices ==
    {EmptyDict,
     [body |-> PyStr("mybody")],
     [command |-> PyStr("mycommand")],
     [command |-> PyStr("runtask"), wrongkey1 |-> PyStr("")],
     [wrongkey1 |-> PyStr(""), wrongkey2 |-> PyStr("")]}
    \cup {[command |-> c, body |-> b] : c \in CommandChoices, b \in BodyChoices}
    \cup {[command |-> c, body |-> EmptyDict, wrongkey1 |-> PyStr("")] : c \in CommandChoices}

Boto3Idle ==
    /\ rin = NoneV
    /\ robj = NoneV
    /\ fin = NoneV
    /\ fcalls = <<>>
    /\ fres = NoneV

Init ==
    /\ event \in EventChoices
    /\ pc = "start"
    /\ loc = EmptyDict
    /\ calls = <<>>
    /\ logs = <<>>
    /\ handled = <<>>
    /\ hres = NoneV
    /\ ret = NoneV
    /\ raised = NoneV
    /\ Boto3Idle

Next ==
    \/ LambdaHandler
    \/ HcRunning \/ HcStopped \/ HcDescribe
    \/ RtDescribeServices \/ RtDescribeTaskdef \/ RtRegister \/ RtRunTask
    \/ RtWaitPoll \/ RtWait
    \/ RtDescribeTasks
    \/ DpPaginate \/ DpListTags \/ DpDescribeServices \/ DpDescribeTaskdef \/ DpRegister
    \/ DpUpdateService

Spec == Init /\ [][Next]_vars

\* The runtask command on its own
InitRunTask == Init /\ "command" \in DOMAIN event /\ event.command = PyStr("runtask")

NextRunTask ==
    \/ LambdaHandler
    \/ RtDescribeServices \/ RtDescribeTaskdef \/ RtRegister \/ RtRunTask
    \/ RtWaitPoll \/ RtWait
    \/ RtDescribeTasks

\* every remote call, and every poll of the waiter, ends: an invocation that
\* can take a step takes one
SpecRunTask == InitRunTask /\ [][NextRunTask]_vars /\ WF_vars(NextRunTask)

-----------------------------------------------------------------------------
(* Properties of lambda_handler and the handlers, under Spec *)

Finished == pc \in {"done", "raised"}

\* the event is a mapping with a string command and a mapping body
PlainEvent ==
    /\ "command" \in DOMAIN event => IsPyStr(event.command)
    /\ "body" \in DOMAIN event => IsDict(event.body)

LacksKey == "command" \notin DOMAIN event \/ "body" \notin DOMAIN event

\* C1: for every event with a mapping body, whatever the remote API answers,
\* lambda_handler returns a mapping and no exception leaves it.
C1_NoExceptionEscapes == PlainEvent => pc # "raised"

\* the remote calls made through invoke whose Boto3Result has a non-empty error
FaultCalls == {i \in 1..Len(calls) : IsResult(calls[i].result) /\ Truthy(Error(calls[i].result))}

\* C2: once a remote call yielded a Boto3Result with a non-empty error, it is
\* the handler's last remote call and the handler has returned that very Result.
C2_ShortCircuit ==
    \A i \in FaultCalls : i = Len(calls) /\ pc = "done" /\ hres = calls[i].result

C2_Witness ==
    /\ pc = "done"
    /\ Len(calls) >= 4
    /\ calls[Len(calls)].op = "wait"
    /\ Len(calls) \in FaultCalls
    /\ hres = calls[Len(calls)].result

\* C3: an event lacking 'command' or 'body' gets the 'Required field(s) not
\* found' fault, whose data names exactly the missing keys, the keys found and
\* the keys required, and no handler runs.
C3_RequiredFields ==
    (LacksKey /\ pc # "start") =>
        /\ pc = "done"
        /\ ret.msg = PyStr("Required field(s) not found")
        /\ SeqToSet(ret.data.missing) = {"command", "body"} \ DOMAIN event
        /\ Len(ret.data.missing) = Cardinality({"command", "body"} \ DOMAIN event)
        /\ SeqToSet(ret.data.found) = DOMAIN event
        /\ ret.data.required = <<"command", "body">>
        /\ handled = <<>>
        /\ calls = <<>>

C3_Witness ==
    /\ pc = "done"
    /\ event = [wrongkey1 |-> PyStr(""), wrongkey2 |-> PyStr("")]
    /\ ret.data.missing = <<"command", "body">>
    /\ ret.data.found = <<"wrongkey1", "wrongkey2">>

\* C4: on a missing 'command' or 'body' the mapping lambda_handler returns has
\* exactly the keys 'msg' and 'data'.
C4_TwoKeys == (LacksKey /\ pc = "done") => DOMAIN ret = {"msg", "data"}

\* C5: an event with both keys whose command is no key of the dispatch table
\* gets the 'Command not recognized' fault listing the valid commands, and no
\* handler runs.
C5_NotRecognized ==
    (~LacksKey /\ ~InDispatch(event.command) /\ pc # "start") =>
        /\ pc = "done"
        /\ ret.msg.text = "Command not recognized: '{}'."
        /\ ret.msg.command = event.command
        /\ ret.data.valid = <<"runtask", "deploy", "healthcheck">>
        /\ handled = <<>>
        /\ calls = <<>>

\* what the handler's result contributes to the response
Merged == IF Error(hres) # EmptyDict THEN Error(hres) ELSE hres.body

-----------------------------------------------------------------------------
(* Properties of Boto3Result and invoke, under SpecBoto3 *)

\* C7: invoke calls the callable once, with the keyword arguments given; a
\* raised exception gives a Result with that exc and an empty body, a returned
\* mapping gives a Result with no exc and that mapping as body, and a falsy
\* return value gives a Result with no exc and an empty body.
C7_Invoke ==
    fres # NoneV =>
        /\ fcalls = <<fin.kwargs>>
        /\ fin.does.pytype = "raises" =>
              IsResult(fres) /\ fres.exc = fin.does.exc /\ fres.body = EmptyDict
        /\ (fin.does.pytype = "returns" /\ IsDict(fin.does.value)) =>
              IsResult(fres) /\ fres.exc = NoneV /\ fres.body = fin.does.value
        /\ (fin.does.pytype = "returns" /\ ~Truthy(fin.does.value)) =>
              IsResult(fres) /\ fres.exc = NoneV /\ fres.body = EmptyDict

C7_Witness ==
    /\ fres # NoneV
    /\ fin.does = Returns(NoneV)
    /\ fin.kwargs # EmptyDict
    /\ fres.body = EmptyDict

\* C8: Boto3Result built with neither a mapping nor an exception raises
\* Boto3InputError, so every Boto3Result holds a mapping, an exception or both.
C8_NeedsOne ==
    robj # NoneV =>
        /\ (~IsDict(rin.response) /\ ~IsException(rin.exc)) =>
              (IsRaise(robj) /\ robj.exc.cls = "Boto3InputError")
        /\ IsResult(robj) => (IsDict(robj.response) \/ IsException(robj.exc))

C8_Witness ==
    /\ IsRaise(robj)
    /\ rin.response = PyStr("not a dict")
    /\ rin.exc = NoneV

HasCode(response) ==
    /\ IsDict(response)
    /\ "ResponseMetadata" \in DOMAIN response
    /\ "HTTPStatusCode" \in DOMAIN response.ResponseMetadata

\* C9: with a payload whose ResponseMetadata.HTTPStatusCode is c, status is
\* str(c); with an exception and no payload, status is None, body is empty and
\* error has the keys title, message, traceback, title being the exception's
\* class name and message its text.
C9_StatusAndError ==
    IsResult(robj) =>
        /\ HasCode(rin.response) =>
              /\ Status(robj) = PyStr(StrOf(rin.response.ResponseMetadata.HTTPStatusCode))
              /\ rin.response.ResponseMetadata.HTTPStatusCode = PyInt(429) =>
                    Status(robj) = PyStr("429")
              /\ rin.response.ResponseMetadata.HTTPStatusCode = PyStr("200") =>
                    Status(robj) = PyStr("200")
        /\ (IsNone(rin.response) /\ IsException(rin.exc)) =>
              /\ Status(robj) = NoneV
              /\ robj.body = EmptyDict
              /\ DOMAIN Error(robj) = {"title", "message", "traceback"}
              /\ Error(robj).title = PyStr(rin.exc.cls)
              /\ Error(robj).message = rin.exc.arg

C9_Witness ==
    /\ IsResult(robj)
    /\ HasCode(rin.response)
    /\ rin.response.ResponseMetadata.HTTPStatusCode = PyInt(429)
    /\ rin.exc = NoneV
    /\ Status(robj) = PyStr("429")

\* C10: status is None whenever no HTTP status code is found (no payload, no
\* ResponseMetadata.HTTPStatusCode, or a null one), and a string only when a
\* code is present.
C10_StatusAbsent ==
    (IsResult(robj) /\ ~IsRaise(Status(robj))) =>
        (Status(robj) = NoneV <=>
            ~(HasCode(rin.response) /\ ~IsNone(rin.response.ResponseMetadata.HTTPStatusCode)))

\* the arguments are a payload (or none) and a fault (or none)
PayloadAndFault ==
    /\ IsResult(robj)
    /\ IsNone(rin.response) \/ IsDict(rin.response)
    /\ IsNone(rin.exc) \/ IsException(rin.exc)

GivenPayload == IF IsDict(rin.response) THEN rin.response ELSE EmptyDict
GivenFailures == Get(GivenPayload, "failures", PyList(<<>>))
GivenCode == Get(Get(GivenPayload, "ResponseMetadata", EmptyDict), "HTTPStatusCode", NoneV)
CodeIsOK == GivenCode = PyInt(200) \/ GivenCode = PyStr("200")

\* C11: error follows a strict precedence: a fault gives the fault's block;
\* else a non-empty 'failures' list gives the 'Response included failures'
\* block carrying the list; else a status code that is present and not 200
\* gives the 'HTTP status not OK: <code>' block carrying the response; else
\* error is the empty mapping.
C11_ErrorPrecedence ==
    PayloadAndFault =>
        IF IsException(rin.exc)
        THEN /\ DOMAIN Error(robj) = {"title", "message", "traceback"}
             /\ Error(robj).title = PyStr(rin.exc.cls)
             /\ Error(robj).message = rin.exc.arg
        ELSE IF Len(GivenFailures.items) > 0
        THEN /\ DOMAIN Error(robj) = {"title", "message", "traceback"}
             /\ Error(robj).title = PyStr("Response included failures")
             /\ Error(robj).message = GivenFailures
             /\ Error(robj).traceback = NoneV
        ELSE IF ~IsNone(GivenCode) /\ ~CodeIsOK
        THEN /\ DOMAIN Error(robj) = {"title", "message", "traceback"}
             /\ Error(robj).title = PyStr("HTTP status not OK: " \o StrOf(GivenCode))
             /\ Error(robj).message = [response |-> rin.response]
             /\ Error(robj).traceback = NoneV
        ELSE Error(robj) = EmptyDict

C11_Witness ==
    /\ PayloadAndFault
    /\ IsNone(rin.exc)
    /\ Len(GivenFailures.items) > 0
    /\ GivenCode = PyInt(429)
    /\ Error(robj).title = PyStr("Response included failures")

-----------------------------------------------------------------------------
(* Properties of _healthcheck, under Spec *)

\* the task ARNs the n-th remote call, a listing, returned
Listed(n) == Get(calls[n].result.body, "taskArns", PyList(<<>>)).items

\* the describe_tasks calls of a _healthcheck run
HcDescribeCalls ==
    {i \in 1..Len(calls) : calls[i].op = "describe_tasks" /\ calls[1].op = "list_tasks"}

\* C12: whatever the two listings return, one ARN in both included, the task
\* list of the one describe_tasks call holds each ARN once and is the union of
\* the two listings.
C12_Dedup ==
    /\ Cardinality(HcDescribeCalls) <= 1
    /\ \A i \in HcDescribeCalls :
          LET tasks == calls[i].kwargs.tasks.items
          IN  /\ i = 3
              /\ Cardinality(SeqToSet(tasks)) = Len(tasks)
              /\ SeqToSet(tasks) = SeqToSet(Listed(1)) \cup SeqToSet(Listed(2))

C12_Witness ==
    /\ HcDescribeCalls = {3}
    /\ Listed(1) = <<TaskArn(1), TaskArn(2)>>
    /\ Listed(2) = <<TaskArn(2)>>
    /\ Len(calls[3].kwargs.tasks.items) = 2

\* both listings of a _healthcheck run succeeded and returned no task ARN
NothingListed ==
    /\ Len(calls) >= 2
    /\ calls[1].op = "list_tasks" /\ calls[2].op = "list_tasks"
    /\ Error(calls[1].result) = EmptyDict /\ Error(calls[2].result) = EmptyDict
    /\ Listed(1) = <<>> /\ Listed(2) = <<>>

\* C13: when both listings succeed and return no task ARN, _healthcheck returns
\* a Result with an empty error whose body carries the message 'No task ARNs
\* were found with the given criteria.', and describe_tasks is never called.
C13_NoTasks ==
    NothingListed =>
        /\ pc = "done"
        /\ Len(calls) = 2
        /\ IsResult(hres)
        /\ Error(hres) = EmptyDict
        /\ hres.body.msg = PyStr("No task ARNs were found with the given criteria.")

C13_Witness ==
    /\ NothingListed
    /\ "taskArns" \in DOMAIN calls[1].result.body
    /\ pc = "done"
    /\ hres.body.msg = PyStr("No task ARNs were found with the given criteria.")
    /\ ret.data.response.msg = PyStr("No task ARNs were found with the given criteria.")

-----------------------------------------------------------------------------
(* Properties of _runtask's validations, under Spec *)

\* the event is a runtask command with a mapping body, and _runtask has run
RunTaskRan ==
    /\ ~LacksKey
    /\ event.command = PyStr("runtask")
    /\ IsDict(event.body)
    /\ pc # "start"

\* the log records at critical level
CriticalLogs == {i \in 1..Len(logs) : logs[i].level = "critical"}

\* _runtask returned a Result with an exception of class cls and an empty body,
\* after one log record, at critical level, and without a remote call
Rejected(cls) ==
    /\ pc = "done"
    /\ IsResult(hres)
    /\ IsException(hres.exc) /\ hres.exc.cls = cls
    /\ hres.body = EmptyDict
    /\ Len(logs) = 3 /\ CriticalLogs = {2}
    /\ calls = <<>>

\* C14: whenever the body's 'entrypoint' is not a string, whatever its other
\* keys, _runtask returns a Result with a TypeError and an empty body, logs
\* once, at critical level, and makes no remote call.
C14_EntrypointType ==
    (RunTaskRan /\ "entrypoint" \in DOMAIN event.body /\ ~IsPyStr(event.body.entrypoint)) =>
        Rejected("TypeError")

\* the required keys the body lacks
AbsentRequired == {"service_id", "cluster_id"} \ DOMAIN event.body

\* C15: when the body (its entrypoint a string or absent) lacks 'service_id',
\* 'cluster_id' or both, _runtask returns a Result with a KeyError whose one
\* message names every absent required field, and an empty body, logs once,
\* at critical level, and makes no remote call.
C15_RequiredIds ==
    (/\ RunTaskRan
     /\ "entrypoint" \in DOMAIN event.body => IsPyStr(event.body.entrypoint)
     /\ AbsentRequired # {}) =>
        /\ Rejected("KeyError")
        /\ hres.exc.arg.msg = PyStr("Required field(s) not found")
        /\ SeqToSet(hres.exc.arg.data.missing) = AbsentRequired
        /\ Len(hres.exc.arg.data.missing) = Cardinality(AbsentRequired)
        /\ logs[2].data = hres.exc.arg.data

C15_Witness ==
    /\ RunTaskRan
    /\ event.body = EmptyDict
    /\ Rejected("KeyError")
    /\ SeqToSet(hres.exc.arg.data.missing) = {"service_id", "cluster_id"}

\* service_id and cluster_id are non-empty strings
ValidIds ==
    /\ AbsentRequired = {}
    /\ IsPyStr(event.body.service_id) /\ Truthy(event.body.service_id)
    /\ IsPyStr(event.body.cluster_id) /\ Truthy(event.body.cluster_id)

\* the body asks for an entrypoint override: a non-empty entrypoint
WantsOverride == "entrypoint" \in DOMAIN event.body /\ Truthy(event.body.entrypoint)

\* C16: with valid service_id and cluster_id, a body that gives an entrypoint
\* but no container_id gets a Result with a KeyError and an empty body, without
\* a remote call; a body that asks for no entrypoint override is never rejected
\* for lacking a container_id.
C16_ContainerId ==
    (RunTaskRan /\ ValidIds /\ "container_id" \notin DOMAIN event.body) =>
        /\ (WantsOverride /\ IsPyStr(event.body.entrypoint)) => Rejected("KeyError")
        /\ ~WantsOverride => ~Rejected("KeyError")

-----------------------------------------------------------------------------
(* Properties of _deploy, under Spec *)

DeployRan == ~LacksKey /\ event.command = PyStr("deploy") /\ IsDict(event.body) /\ pc # "start"

\* the calls of a _deploy run that described a task definition
DpDescribed ==
    {i \in 1..Len(calls) :
        /\ DeployRan
        /\ calls[i].op = "describe_task_definition"
        /\ Error(calls[i].result) = EmptyDict
        /\ "taskDefinition" \in DOMAIN calls[i].result.body}

\* the requested edits leave the task definition described by call i as it is:
\* every container definition already has the image and the secrets asked for
Unedited(i) ==
    LET cds == calls[i].result.body.taskDefinition.containerDefinitions.items
        image == Get(event.body, "image", NoneV)
        secrets == Get(event.body, "secrets", NoneV)
    IN  \A j \in 1..Len(cds) :
            /\ Truthy(image) => cds[j].image = image
            /\ Truthy(secrets) => ("secrets" \in DOMAIN cds[j] /\ cds[j].secrets = loc.secrets_map)

\* C17: for a target service whose task definition the requested edits leave
\* unchanged, the call after describe_task_definition is not
\* register_task_definition but the one update_service call for that service,
\* with the described task definition's ARN and forceNewDeployment true.
C17_Unchanged ==
    \A i \in DpDescribed :
        Unedited(i) =>
            IF i = Len(calls)
            THEN pc = "dp_update_service"
            ELSE /\ calls[i + 1].op = "update_service"
                 /\ calls[i + 1].kwargs.taskDefinition =
                        calls[i].result.body.taskDefinition.taskDefinitionArn
                 /\ calls[i + 1].kwargs.taskDefinition = calls[i].kwargs.taskDefinition
                 /\ calls[i + 1].kwargs.forceNewDeployment = PyBool(TRUE)
                 /\ \E k \in 1..MaxServices :
                        /\ calls[i].kwargs.taskDefinition = TaskdefArn(k, 1)
                        /\ calls[i + 1].kwargs.service = ServiceName(k)
                 /\ i + 2 <= Len(calls) => calls[i + 2].op = "describe_task_definition"

C17_Witness ==
    /\ DeployRan
    /\ Get(event.body, "image", NoneV) = PyStr("img:1")
    /\ Len(calls) = 3
    /\ 2 \in DpDescribed /\ Unedited(2)
    /\ Len(calls[2].result.body.taskDefinition.containerDefinitions.items) = 1
    /\ calls[3].op = "update_service"
    /\ calls[3].kwargs.taskDefinition = TaskdefArn(1, 1)
    /\ pc = "done"

-----------------------------------------------------------------------------
(* Logging of lambda_handler, under Spec *)

LastLog == logs[Len(logs)]

\* no handler ran, or the one that ran has no log call on its path: _healthcheck
\* given a cluster name
QuietRun ==
    \/ handled = <<>>
    \/ /\ event.command = PyStr("healthcheck")
       /\ IsDict(event.body)
       /\ IsPyStr(Get(event.body, "cluster", NoneV))

\* C18: when lambda_handler returns, it has first logged 'event received' and
\* last logged an entry carrying what it returns: the validation fault at
\* critical level, or 'response received' with the response, which holds the
\* handler's error if there is one; it logs exactly twice when the handler
\* does not log.
C18_LoggedBeforeReturn ==
    pc = "done" =>
        /\ Len(logs) >= 2
        /\ logs[1] = LogRec(PyStr("event received"), event, "info")
        /\ LastLog.msg = ret.msg
        /\ LastLog.data = ret.data
        /\ handled = <<>> => LastLog.level = "critical"
        /\ handled # <<>> =>
              /\ LastLog.msg = PyStr("response received")
              /\ \A k \in DOMAIN Error(hres) : LastLog.data.response[k] = Error(hres)[k]
        /\ QuietRun => Len(logs) = 2

C18_Witness ==
    /\ pc = "done"
    /\ handled # <<>>
    /\ QuietRun
    /\ Len(logs) = 2
    /\ Len(calls) = 3
    /\ Error(hres) # EmptyDict
    /\ LastLog.data.response.title = PyStr("ClientError")

-----------------------------------------------------------------------------
(* The wait of _runtask, under SpecRunTask *)

WaitCalls == {i \in 1..Len(calls) : calls[i].op = "wait"}

\* what holds of the wait in every state
WaitSafe ==
    /\ Cardinality(WaitCalls) <= 1
    /\ pc = "rt_wait" => NumAttempts(loc) < 40
    /\ \A i \in WaitCalls :
          /\ i > 1 /\ calls[i - 1].op = "run_task" /\ Error(calls[i - 1].result) = EmptyDict
          /\ "WaiterConfig" \in DOMAIN calls[i].kwargs
          /\ calls[i].kwargs.WaiterConfig = [Delay |-> PyInt(15), MaxAttempts |-> PyInt(40)]
          /\ IF Error(calls[i].result) = EmptyDict
             THEN /\ i = Len(calls) => pc = "rt_describe_tasks"
                  /\ i < Len(calls) => calls[i + 1].op = "describe_tasks"
             ELSE /\ i = Len(calls)
                  /\ pc = "done"
                  /\ hres = calls[i].result
                  /\ IsException(hres.exc) /\ hres.exc.cls = "WaiterError"

\* the wait ends with the waiter's timeout error
TimedOut == WaitCalls # {} /\ calls[Len(calls)].result.exc = WaitTimeout.exc

\* the timeout comes with the 40th poll, not before
TimeoutIsLast == (pc = "rt_wait" /\ TimedOut') => NumAttempts(loc) + 1 = 40

\* C19: after run_task succeeded _runtask makes one wait, with Delay 15 and
\* MaxAttempts 40; the invocation always ends; when the task stops within the
\* attempts the next call is describe_tasks, and when it does not, _runtask
\* returns the Result holding the waiter's timeout error and describe_tasks is
\* not called.
C19_BoundedWait == []WaitSafe /\ [][TimeoutIsLast]_vars /\ <>Finished

C19_Witness ==
    /\ pc = "done"
    /\ TimedOut
    /\ hres.exc.cls = "WaiterError"
    /\ \A i \in 1..Len(calls) : calls[i].op # "describe_tasks"

-----------------------------------------------------------------------------
(* The remote calls of _runtask, under Spec *)

\* the operations called so far, in order
Ops == [i \in 1..Len(calls) |-> calls[i].op]

IsPrefix(p, q) == Len(p) <= Len(q) /\ \A i \in 1..Len(p) : p[i] = q[i]

OpsWithOverride ==
    <<"describe_services", "describe_task_definition", "register_task_definition",
      "run_task", "wait", "describe_tasks">>

OpsWithoutOverride == <<"describe_services", "run_task", "wait", "describe_tasks">>

RunTaskCalls == {i \in 1..Len(calls) : calls[i].op = "run_task"}

\* C20: _runtask calls describe_services, then, only when a non-empty
\* entrypoint is requested, describe_task_definition and
\* register_task_definition, then run_task, the wait and describe_tasks;
\* run_task gets launch type FARGATE, the described service's network
\* configuration, and the ARN of the revision just registered when an
\* entrypoint was requested, the service's current task-definition ARN otherwise.
C20_CallOrder ==
    RunTaskRan =>
        /\ IsPrefix(Ops, IF WantsOverride THEN OpsWithOverride ELSE OpsWithoutOverride)
        /\ \A i \in RunTaskCalls :
              LET svc == calls[1].result.body.services.items[1]
              IN  /\ calls[i].kwargs.launchType = PyStr("FARGATE")
                  /\ calls[i].kwargs.networkConfiguration = svc.networkConfiguration
                  /\ calls[1].kwargs = [cluster |-> event.body.cluster_id,
                                         services |-> PyList(<<event.body.service_id>>)]
                  /\ calls[i].kwargs.cluster = event.body.cluster_id
                  /\ calls[i].kwargs.taskDefinition =
                        IF WantsOverride
                        THEN calls[3].result.body.taskDefinition.taskDefinitionArn
                        ELSE svc.taskDefinition

C20_Witness ==
    /\ RunTaskRan
    /\ WantsOverride
    /\ pc = "done"
    /\ Ops = OpsWithOverride
    /\ calls[4].kwargs.taskDefinition = NewTaskdefArn
    /\ calls[4].kwargs.taskDefinition # calls[1].result.body.services.items[1].taskDefinition
    /\ Error(hres) = EmptyDict

-----------------------------------------------------------------------------
(* The entrypoint override of _runtask, under Spec *)

\* _runtask has described the service's task definition and
\* _generate_container_definition has returned a definition for the container
OverrideBuilt ==
    /\ RunTaskRan
    /\ "r_taskdef" \in DOMAIN loc
    /\ "register_kwargs" \in DOMAIN loc

\* C21: after _generate_container_definition returned, the task definition in
\* the body of the Result of describe_task_definition is the one the remote
\* API described (command, port mappings and log stream prefix as they were);
\* the definition handed to register_task_definition carries the new command,
\* no port mappings and the 'lambda' prefix.
C21_Clone ==
    OverrideBuilt =>
        /\ loc.r_taskdef.body.taskDefinition = loc.described_taskdef
        /\ loc.r_taskdef.body.taskDefinition = calls[2].result.body.taskDefinition
        /\ LET cd == loc.register_kwargs.containerDefinitions.items[1]
           IN  /\ cd.command = event.body.entrypoint
               /\ cd.portMappings = PyList(<<>>)
               /\ cd.logConfiguration.options["awslogs-stream-prefix"] = PyStr("lambda")

\* _runtask described the service's task definition, and no container
\* definition of it has the name the body gives as container_id
NoSuchContainer ==
    /\ RunTaskRan
    /\ Len(calls) >= 2
    /\ calls[2].op = "describe_task_definition"
    /\ Error(calls[2].result) = EmptyDict
    /\ "taskDefinition" \in DOMAIN calls[2].result.body
    /\ LET cds == calls[2].result.body.taskDefinition.containerDefinitions.items
       IN  \A i \in 1..Len(cds) : cds[i].name # GetOrEmpty(event.body, "container_id")

\* C22: when no container definition of the described task definition has the
\* requested name, a task definition without container definitions included,
\* _generate_container_definition raises a KeyError, and neither
\* register_task_definition nor run_task is called.
C22_NotFound ==
    NoSuchContainer =>
        /\ pc = "raised"
        /\ raised.cls = "KeyError"
        /\ Len(calls) = 2

-----------------------------------------------------------------------------
(* The result of _runtask, under Spec *)

\* the describe_tasks call of a _runtask run, once it returned a payload whose
\* status code is 200
RtDescribed ==
    {i \in 1..Len(calls) :
        /\ RunTaskRan
        /\ calls[i].op = "describe_tasks"
        /\ ~IsException(calls[i].result.exc)
        /\ HasCode(calls[i].result.body) =>
              calls[i].result.body.ResponseMetadata.HTTPStatusCode = PyInt(200)}

\* C23: after the wait _runtask describes the task; when the payload reports a
\* non-empty failures list it returns a Result with a non-empty error and no
\* taskStatus; otherwise it returns a Result with status 200 whose body holds
\* taskArn, taskDefinitionArn and taskStatus, taskStatus having exactly those
\* of stopCode, stoppedReason, startedBy, taskArn that the first described task
\* has, and the exitCode of that task's first container.
C23_TaskResult ==
    \A i \in RtDescribed :
        LET payload == calls[i].result.body
            failures == Get(payload, "failures", PyList(<<>>))
        IN  /\ calls[i - 1].op = "wait"
            /\ pc = "done"
            /\ IsResult(hres)
            /\ IF Len(failures.items) > 0
               THEN /\ Error(hres) # EmptyDict
                    /\ "taskStatus" \notin DOMAIN hres.body
               ELSE LET task == payload.tasks.items[1]
                    IN  /\ Status(hres) = PyStr("200")
                        /\ Error(hres) = EmptyDict
                        /\ hres.body.taskArn = calls[i].kwargs.tasks.items[1]
                        /\ hres.body.taskDefinitionArn = calls[i - 2].kwargs.taskDefinition
                        /\ DOMAIN hres.body.taskStatus =
                             (DOMAIN task \cap {"stopCode", "stoppedReason", "startedBy", "taskArn"})
                             \cup {"exitCode"}
                        /\ \A k \in DOMAIN hres.body.taskStatus \ {"exitCode"} :
                              hres.body.taskStatus[k] = task[k]
                        /\ hres.body.taskStatus.exitCode = task.containers.items[1].exitCode

-----------------------------------------------------------------------------
(* The revisions _deploy registers, under Spec *)

\* the container definitions the requested edits make of those described by
\* call i: the image set when an image is given, the secrets replaced by the
\* computed mapping when secret patterns are given
WantedDefs(i) ==
    LET cds == calls[i].result.body.taskDefinition.containerDefinitions.items
        image == Get(event.body, "image", NoneV)
        secrets == Get(event.body, "secrets", NoneV)
        WithImage(cd) == IF Truthy(image) THEN Update(cd, [image |-> image]) ELSE cd
        WithSecrets(cd) == IF Truthy(secrets) THEN Update(cd, [secrets |-> loc.secrets_map]) ELSE cd
    IN  [j \in 1..Len(cds) |-> WithImage(WithSecrets(cds[j]))]

\* the edits change the task definition described by call i
Differs(i) == WantedDefs(i) # calls[i].result.body.taskDefinition.containerDefinitions.items

\* call i registered a new revision
Registered(i) ==
    /\ i <= Len(calls)
    /\ calls[i].op = "register_task_definition"
    /\ Error(calls[i].result) = EmptyDict
    /\ ArnMissing(calls[i].result) = <<>>

\* C24: for each target service of _deploy, register_task_definition is called,
\* once, exactly when the edited deep copy of the described task definition
\* differs from the original; update_service is then called with the ARN of the
\* revision just registered if one was, with the described ARN otherwise; the
\* described task definition is left as it was.
C24_RegisterIffChanged ==
    \A i \in DpDescribed :
        LET described == calls[i].result.body.taskDefinition
        IN  /\ i = Len(calls) =>
                 /\ pc \in {"dp_register", "dp_update_service", "raised"}
                 /\ pc = "dp_register" =>
                       /\ Differs(i)
                       /\ loc.register_kwargs.containerDefinitions.items = WantedDefs(i)
                 /\ pc = "dp_update_service" =>
                       ~Differs(i) /\ loc.new_taskdef_arn = described.taskDefinitionArn
                 /\ pc = "raised" => Differs(i)
                 /\ loc.r_taskdef = calls[i].result
                 /\ loc.r_taskdef.body.taskDefinition = described
            /\ i < Len(calls) =>
                 /\ calls[i + 1].op = "register_task_definition" <=> Differs(i)
                 /\ Differs(i) =>
                       /\ calls[i + 1].kwargs.containerDefinitions.items = WantedDefs(i)
                       /\ i + 2 <= Len(calls) =>
                             /\ Registered(i + 1)
                             /\ calls[i + 2].op = "update_service"
                             /\ calls[i + 2].kwargs.taskDefinition =
                                   calls[i + 1].result.body.taskDefinition.taskDefinitionArn
                       /\ (i + 2 > Len(calls) /\ pc = "dp_update_service") =>
                             loc.new_taskdef_arn =
                                calls[i + 1].result.body.taskDefinition.taskDefinitionArn
                 /\ ~Differs(i) =>
                       /\ calls[i + 1].op = "update_service"
                       /\ calls[i + 1].kwargs.taskDefinition = described.taskDefinitionArn

C24_Witness ==
    /\ DeployRan
    /\ pc = "done"
    /\ Ops = <<"describe_services", "describe_task_definition", "register_task_definition",
               "update_service", "describe_task_definition", "update_service">>
    /\ Differs(2) /\ ~Differs(5)
    /\ calls[4].kwargs.taskDefinition = NewTaskdefArn
    /\ calls[6].kwargs.taskDefinition = TaskdefArn(2, 1)
    /\ Error(hres) = EmptyDict

-----------------------------------------------------------------------------
(* The services _deploy updates, under Spec *)

\* the n-th remote call succeeded: no fault, and the payload has the fields of
\* the operation's response
Succeeded(n) ==
    LET r == calls[n].result
    IN  CASE calls[n].op = "describe_parameters" -> n < Len(calls) \/ pc # "raised"
          [] calls[n].op = "describe_services" ->
                /\ Error(r) = EmptyDict
                /\ "services" \in DOMAIN r.body
                /\ \A j \in 1..Len(r.body.services.items) :
                      {"serviceName", "serviceArn", "taskDefinition"} \subseteq
                          DOMAIN r.body.services.items[j]
          [] calls[n].op = "describe_task_definition" ->
                /\ Error(r) = EmptyDict
                /\ "taskDefinition" \in DOMAIN r.body
                /\ SeqToSet(RegisterKeys) \subseteq DOMAIN r.body.taskDefinition
          [] calls[n].op = "register_task_definition" -> Registered(n)
          [] calls[n].op = "update_service" ->
                /\ Error(r) = EmptyDict
                /\ "service" \in DOMAIN r.body
                /\ "serviceArn" \in DOMAIN r.body.service
          [] OTHER -> Error(r) = EmptyDict

\* a _deploy run has ended and every remote call it made succeeded
DeployedUnfailed ==
    /\ DeployRan
    /\ Finished
    /\ \E n \in 1..Len(calls) : calls[n].op = "describe_services"
    /\ \A n \in 1..Len(calls) : Succeeded(n)

\* the described services that match the request, in the order described
Targets ==
    LET n == CHOOSE k \in 1..Len(calls) : calls[k].op = "describe_services"
        wanted == SeqToSet(event.body.service_ids.items)
    IN  SelectSeq(calls[n].result.body.services.items,
                  LAMBDA svc : svc.serviceName \in wanted \/ svc.serviceArn \in wanted)

\* the update_service calls made, in order
Updates == SelectSeq(calls, LAMBDA c : c.op = "update_service")

\* C25: when every remote call succeeds, whatever the number of described
\* services matching the request, zero included, _deploy returns a Result with
\* an empty error; update_service was called once for each matching service, in
\* order, and for no other; UpdatedServiceArns lists the serviceArn each call
\* returned and NewTaskdefArn is the task definition given to the last call.
C25_UpdatesTargets ==
    DeployedUnfailed =>
        /\ pc = "done"
        /\ IsResult(hres)
        /\ Error(hres) = EmptyDict
        /\ Status(hres) = PyStr("200")
        /\ Len(Updates) = Len(Targets)
        /\ \A j \in 1..Len(Updates) : Updates[j].kwargs.service = Targets[j].serviceName
        /\ hres.body.UpdatedServiceArns =
              PyList([j \in 1..Len(Updates) |-> Updates[j].result.body.service.serviceArn])
        /\ Len(Updates) > 0 =>
              hres.body.NewTaskdefArn = Updates[Len(Updates)].kwargs.taskDefinition

-----------------------------------------------------------------------------
(* The validations of _deploy, under Spec *)

\* _deploy returned a Result holding an exception of class cls, without having
\* called SSM or ECS
DpRejected(cls) ==
    /\ pc = "done"
    /\ IsResult(hres)
    /\ IsException(hres.exc) /\ hres.exc.cls = cls
    /\ Error(hres) # EmptyDict
    /\ calls = <<>>

\* the body has cluster_id and service_ids, neither of them null
HasDeployIds ==
    /\ {"cluster_id", "service_ids"} \subseteq DOMAIN event.body
    /\ ~IsNone(event.body.cluster_id) /\ ~IsNone(event.body.service_ids)

-----------------------------------------------------------------------------
(* _map_ecs_ssm_parameters, under Spec *)

\* the list_tags_for_resource calls made, in order
TagCalls == SelectSeq(calls, LAMBDA c : c.op = "list_tags_for_resource")

\* the ENV_VAR_NAME tags in the tag list a call returned
EnvTags(c) ==
    SelectSeq(Get(c.result.body, "TagList", PyList(<<>>)).items,
              LAMBDA tag : tag.Key = PyStr("ENV_VAR_NAME"))

\* the entries of the map for the first n tag calls: one for each parameter
\* that carries an ENV_VAR_NAME tag
WantedMap(n) ==
    LET Entry(j) == IF Len(EnvTags(TagCalls[j])) > 0
                    THEN <<[name |-> EnvTags(TagCalls[j])[1].Value,
                            valueFrom |-> TagCalls[j].kwargs.ResourceId]>>
                    ELSE <<>>
        Upto[j \in 0..n] == IF j = 0 THEN <<>> ELSE Upto[j - 1] \o Entry(j)
    IN  Upto[n]

\* C27: _map_ecs_ssm_parameters calls list_tags_for_resource once per stored
\* parameter, in input order, with ResourceType 'Parameter' and the parameter's
\* Name as ResourceId, and stops at the first call that returns an error; when
\* none fails the map holds, in input order, one {name, valueFrom} entry for
\* each parameter that carries an ENV_VAR_NAME tag and none for the others.
C27_MapsTagged ==
    (DeployRan /\ "ssm_parameters" \in DOMAIN loc) =>
        /\ Len(TagCalls) <= Len(loc.ssm_parameters)
        /\ \A j \in 1..Len(TagCalls) :
              /\ TagCalls[j].kwargs =
                    [ResourceType |-> PyStr("Parameter"), ResourceId |-> ParamName(j)]
              /\ TagCalls[j] = calls[j + 1]
              /\ Error(TagCalls[j].result) # EmptyDict =>
                    /\ j = Len(TagCalls) /\ j + 1 = Len(calls)
                    /\ pc = "done" /\ hres = TagCalls[j].result
        /\ "secrets_map" \in DOMAIN loc =>
              /\ Len(TagCalls) = Len(loc.ssm_parameters)
              /\ loc.secrets_map = PyList(WantedMap(Len(TagCalls)))
        /\ (pc = "dp_list_tags") => Len(TagCalls) < Len(loc.ssm_parameters)

-----------------------------------------------------------------------------
(* functions/runtask.py: the run-task function that reads its target from    *)
(* the environment.  Its Boto3Result and invoke are built as those above;    *)
(* its _runtask tests r.exc after each call.                                  *)

\* os.environ, with the four variables the function reads
Environ ==
    [ENVIRONMENT |-> PyStr("prod"), ECS_CLUSTER |-> PyStr("c1"),
     ECS_SERVICE |-> PyStr("svc1"), ECS_CONTAINER |-> PyStr("web")]

\* f"{_service}-lambda-{_environment}"
LegacyFamily(service, environment) ==
    [pytype |-> "fstr", text |-> "{}-lambda-{}", service |-> service, environment |-> environment]

\* Boto3Result(exc=r.exc)
ExcOnly(r) == Boto3Result(NoneV, r.exc)

\* runtask.py's _generate_container_definition(taskdef, container_name, command)
legacy_generate_container_definition(taskdef, container_name, command) ==
    LET cds == taskdef.containerDefinitions.items
        hits == {i \in 1..Len(cds) : cds[i].name = container_name}
    IN  IF hits = {}
        THEN [kind |-> "raise", taskdef |-> taskdef,
              exc |-> PyExc("KeyError", NotFoundText(container_name))]
        ELSE LET i == CHOOSE j \in hits : \A k \in hits : j <= k
                 tagged == [cds[i] EXCEPT !.logConfiguration.options =
                                Update(@, "awslogs-stream-prefix" :> PyStr("lambda"))]
                 edited == Update(tagged, [command |-> command,
                                           portMappings |-> PyList(<<>>)])
             IN  [kind |-> "ok", container_definition |-> edited,
                  taskdef |-> [taskdef EXCEPT !.containerDefinitions.items[i] = edited]]

\* runtask.py's _runtask(command) up to its first remote call
legacy_runtask(command) ==
    StepCall("lg_describe_services",
             [command |-> command, environment |-> Environ.ENVIRONMENT,
              cluster |-> Environ.ECS_CLUSTER, service |-> Environ.ECS_SERVICE,
              taskdef_family |-> LegacyFamily(Environ.ECS_SERVICE, Environ.ENVIRONMENT)],
             <<>>)

\* after r = invoke(ecs.describe_services, ...)
lg_describe_services(r, l) ==
    IF Truthy(r.exc)
    THEN StepReturn(ExcOnly(r), l, <<>>)
    ELSE IF "services" \notin DOMAIN r.body
    THEN StepRaise(KeyErr("services"), l, <<>>)
    ELSE IF Len(r.body.services.items) = 0
    THEN StepRaise(IndexErr, l, <<>>)
    ELSE IF FirstMissing(r.body.services.items[1],
                         <<"networkConfiguration", "taskDefinition">>) # <<>>
    THEN StepRaise(KeyErr(FirstMissing(r.body.services.items[1],
                          <<"networkConfiguration", "taskDefinition">>)[1]), l, <<>>)
    ELSE LET svc == r.body.services.items[1]
             l2 == Update(l, [netconf |-> svc.networkConfiguration,
                              svc_taskdef_arn |-> svc.taskDefinition])
         IN  IF Truthy(l.command)
             THEN StepCall("lg_describe_taskdef",
                           Update(l2, [container_name |-> Environ.ECS_CONTAINER]), <<>>)
             ELSE StepCall("lg_run_task",
                           Update(l2, [target_taskdef_arn |-> svc.taskDefinition]), <<>>)

\* after r = invoke(ecs.describe_task_definition, ...): up to the call of
\* register_task_definition, whose arguments are built first
lg_describe_taskdef(r, l) ==
    IF Truthy(r.exc)
    THEN StepReturn(ExcOnly(r), l, <<>>)
    ELSE IF "taskDefinition" \notin DOMAIN r.body
    THEN StepRaise(KeyErr("taskDefinition"), l, <<>>)
    ELSE IF "containerDefinitions" \notin DOMAIN r.body.taskDefinition
    THEN StepRaise(KeyErr("containerDefinitions"), l, <<>>)
    ELSE
    LET service_taskdef == r.body.taskDefinition
        gen == legacy_generate_container_definition(service_taskdef, l.container_name,
                                                    l.command)
        lacking == FirstMissing(service_taskdef, SubSeq(RegisterKeys, 3, Len(RegisterKeys)))
    IN  IF gen.kind = "raise"
        THEN StepRaise(gen.exc, l, <<>>)
        ELSE IF lacking # <<>>
        THEN StepRaise(KeyErr(lacking[1]), l, <<>>)
        ELSE StepCall("lg_register",
                Update(l, [register_kwargs |->
                    [family |-> l.taskdef_family,
                     containerDefinitions |-> PyList(<<gen.container_definition>>),
                     executionRoleArn |-> service_taskdef.executionRoleArn,
                     taskRoleArn |-> service_taskdef.taskRoleArn,
                     networkMode |-> service_taskdef.networkMode,
                     cpu |-> service_taskdef.cpu,
                     memory |-> service_taskdef.memory,
                     requiresCompatibilities |-> service_taskdef.requiresCompatibilities]]),
                <<>>)

\* after r = invoke(ecs.register_task_definition, ...)
lg_register(r, l) ==
    IF Truthy(r.exc)
    THEN StepReturn(ExcOnly(r), l, <<>>)
    ELSE IF ArnMissing(r) # <<>>
    THEN StepRaise(KeyErr(ArnMissing(r)[1]), l, <<>>)
    ELSE StepCall("lg_run_task",
                  Update(l, [target_taskdef_arn |-> r.body.taskDefinition.taskDefinitionArn]),
                  <<LogRec(PyStr("Created task definition"),
                           r.body.taskDefinition.taskDefinitionArn, "debug")>>)

\* after r = invoke(ecs.run_task, ...): the task ARN is read from the body
\* first, r.exc is tested after
lg_run_task(r, l) ==
    IF "tasks" \notin DOMAIN r.body
    THEN StepRaise(KeyErr("tasks"), l, <<>>)
    ELSE IF Len(r.body.tasks.items) = 0
    THEN StepRaise(IndexErr, l, <<>>)
    ELSE IF "taskArn" \notin DOMAIN r.body.tasks.items[1]
    THEN StepRaise(KeyErr("taskArn"), l, <<>>)
    ELSE IF Truthy(r.exc)
    THEN StepReturn(ExcOnly(r), l, <<>>)
    ELSE StepCall("lg_wait", Update(l, [new_task_arn |-> r.body.tasks.items[1].taskArn]),
                  <<LogRec(PyStr("Running task"), r.body.tasks.items[1].taskArn, "debug")>>)

LegacyWaitDelay == 6
LegacyWaitAttempts == 20

\* the keyword arguments runtask.py's _task_wait gives waiter.wait
LegacyWaitKwargs(cluster, task_arn) ==
    [cluster |-> cluster, tasks |-> PyList(<<task_arn>>),
     WaiterConfig |-> [Delay |-> PyInt(LegacyWaitDelay),
                       MaxAttempts |-> PyInt(LegacyWaitAttempts)]]

\* what runtask.py's _task_wait returns, r being the result of its invoke
legacy_task_wait(r) == IF Truthy(r.exc) THEN ExcOnly(r) ELSE Boto3Result(EmptyDict, NoneV)

\* after r = _task_wait(...)
lg_wait(r, l) ==
    IF Truthy(legacy_task_wait(r).exc)
    THEN StepReturn(ExcOnly(legacy_task_wait(r)), l, <<>>)
    ELSE StepCall("lg_describe_tasks", l,
                  <<LogRec(PyStr("Finished waiting for task execution"),
                           l.new_task_arn, "debug")>>)

\* after r = invoke(ecs.describe_tasks, ...)
lg_describe_tasks(r, l) ==
    IF Truthy(r.exc)
    THEN StepReturn(ExcOnly(r), l, <<>>)
    ELSE IF "failures" \notin DOMAIN r.body
    THEN StepRaise(KeyErr("failures"), l, <<>>)
    ELSE IF Truthy(r.body.failures)
    THEN StepReturn(
            Boto3Result(NoneV,
                PyExc("Exception",
                      [pytype |-> "tuple",
                       text |-> "ecs.describeTask call returned errors on {}",
                       new_task_arn |-> l.new_task_arn,
                       failures |-> r.body.failures])), l, <<>>)
    ELSE IF "tasks" \notin DOMAIN r.body
    THEN StepRaise(KeyErr("tasks"), l, <<>>)
    ELSE IF Len(r.body.tasks.items) = 0
    THEN StepRaise(IndexErr, l, <<>>)
    ELSE IF "containers" \notin DOMAIN r.body.tasks.items[1]
    THEN StepRaise(KeyErr("containers"), l, <<>>)
    ELSE IF Len(r.body.tasks.items[1].containers.items) = 0
    THEN StepRaise(IndexErr, l, <<>>)
    ELSE IF "exitCode" \notin DOMAIN r.body.tasks.items[1].containers.items[1]
    THEN StepRaise(KeyErr("exitCode"), l, <<>>)
    ELSE
    LET task_description == r.body.tasks.items[1]
        container_description == task_description.containers.items[1]
        task_status ==
            Update([k \in RunTaskStatusKeys \cap DOMAIN task_description |->
                        task_description[k]],
                   [exitCode |-> container_description.exitCode])
    IN  StepReturn(
            Boto3Result([taskArn |-> l.new_task_arn,
                         taskDefinitionArn |-> l.target_taskdef_arn,
                         taskStatus |-> task_status], NoneV), l, <<>>)

\* sys.exit(result.body.get("taskStatus", {}).get("exitCode", 1))
ExitCode(result) == Get(Get(result.body, "taskStatus", EmptyDict), "exitCode", PyInt(1))

\* The rest of runtask.py's lambda_handler once a piece of _runtask ended with
\* step, having made the remote calls made and logged pre before
LegacyCommit(step, made, pre) ==
    /\ calls' = calls \o made
    /\ loc' = step.loc
    /\ pc' = step.pc
    /\ CASE step.kind = "call" ->
              /\ logs' = logs \o pre \o step.logs
              /\ UNCHANGED <<hres, ret, raised>>
         [] step.kind = "raise" ->
              /\ logs' = logs \o pre \o step.logs
              /\ raised' = step.exc
              /\ UNCHANGED <<hres, ret>>
         [] step.kind = "return" ->
              \E ms \in 0..MaxElapsedMs :
                 LET response == Update([request_payload |-> GetOrEmpty(event, "command")],
                                        step.result.body)
                     data == [response |-> response, duration |-> Duration(ms)]
                 IN  /\ logs' = logs \o pre \o step.logs
                                  \o <<LogRec(PyStr("response received"), data, "debug")>>
                     /\ hres' = step.result
                     /\ ret' = [pytype |-> "SystemExit", code |-> ExitCode(step.result)]
                     /\ UNCHANGED raised

\* runtask.py's lambda_handler(event), up to _runtask's first remote call
LgLambdaHandler ==
    /\ pc = "lg_start"
    /\ UNCHANGED <<event, handled, bvars>>
    /\ LegacyCommit(legacy_runtask(GetOrEmpty(event, "command")), <<>>,
                    <<LogRec(PyStr("event received"), event, "debug")>>)

\* one remote call of runtask.py made through invoke at a call site
LegacyRemote(site, op, kwargs, o, step) ==
    /\ pc = site
    /\ UNCHANGED <<event, handled, bvars>>
    /\ LegacyCommit(step, <<[op |-> op, kwargs |-> kwargs, result |-> Invoke(o)]>>, <<>>)

LgDescribeServices ==
    /\ pc = "lg_describe_services"
    /\ \E o \in DescribeServicesOutcomes :
          LegacyRemote("lg_describe_services", "describe_services",
                       [cluster |-> loc.cluster, services |-> PyList(<<loc.service>>)],
                       o, lg_describe_services(Invoke(o), loc))

LgDescribeTaskdef ==
    /\ pc = "lg_describe_taskdef"
    /\ \E o \in DescribeTaskdefOutcomes(loc.svc_taskdef_arn) :
          LegacyRemote("lg_describe_taskdef", "describe_task_definition",
                       [taskDefinition |-> loc.svc_taskdef_arn],
                       o, lg_describe_taskdef(Invoke(o), loc))

LgRegister ==
    /\ pc = "lg_register"
    /\ \E o \in RegisterOutcomes :
          LegacyRemote("lg_register", "register_task_definition",
                       loc.register_kwargs,
                       o, lg_register(Invoke(o), loc))

LgRunTask ==
    /\ pc = "lg_run_task"
    /\ \E o \in RunTaskOutcomes :
          LegacyRemote("lg_run_task", "run_task",
                       RunTaskKwargs([cluster_id |-> loc.cluster,
                                      target_taskdef_arn |-> loc.target_taskdef_arn,
                                      netconf |-> loc.netconf]),
                       o, lg_run_task(Invoke(o), loc))

LgWait ==
    /\ pc = "lg_wait"
    /\ \E o \in WaitOutcomes :
          LegacyRemote("lg_wait", "wait",
                       LegacyWaitKwargs(loc.cluster, loc.new_task_arn),
                       o, lg_wait(Invoke(o), loc))

LgDescribeTasks ==
    /\ pc = "lg_describe_tasks"
    /\ \E o \in DescribeTasksOutcomes(<<loc.new_task_arn>>) :
          LegacyRemote("lg_describe_tasks", "describe_tasks",
                       DescribeTasksKwargs(loc.cluster, PyList(<<loc.new_task_arn>>)),
                       o, lg_describe_tasks(Invoke(o), loc))

\* the events given to runtask.py's lambda_handler: an optional command
LegacyEvents ==
    {EmptyDict, [command |-> NoneV], [command |-> PyStr("")],
     [command |-> PyStr("migrate")], [command |-> PyStr("rake db:seed")]}

InitLegacy ==
    /\ event \in LegacyEvents
    /\ pc = "lg_start"
    /\ loc = EmptyDict
    /\ calls = <<>>
    /\ logs = <<>>
    /\ handled = <<>>
    /\ hres = NoneV
    /\ ret = NoneV
    /\ raised = NoneV
    /\ Boto3Idle

NextLegacy ==
    \/ LgLambdaHandler
    \/ LgDescribeServices \/ LgDescribeTaskdef \/ LgRegister \/ LgRunTask \/ LgWait
    \/ LgDescribeTasks

SpecLegacy == InitLegacy /\ [][NextLegacy]_vars

\* C28: in functions/runtask.py, once a remote call of _runtask raised (be it
\* describe_services, describe_task_definition, register_task_definition,
\* run_task, the wait or describe_tasks), it is _runtask's last remote call and
\* _runtask has returned a Result holding that exception; a failing run_task
\* is returned so and does not raise.
C28_LegacyShortCircuit ==
    \A i \in 1..Len(calls) :
        IsException(calls[i].result.exc) =>
            /\ i = Len(calls)
            /\ pc = "done"
            /\ IsResult(hres)
            /\ hres.exc = calls[i].result.exc

-----------------------------------------------------------------------------
(* Required identifiers that are present but unusable, under Spec *)

HealthcheckRan ==
    ~LacksKey /\ event.command = PyStr("healthcheck") /\ IsDict(event.body) /\ pc # "start"

\* the value cannot serve as an identifier: it is null, empty or not a string
Unusable(v) == ~IsPyStr(v) \/ ~Truthy(v)

\* the handler returned the 'Required field(s) not found' KeyError Result
\* without a remote call
RequiredFault ==
    /\ pc = "done"
    /\ IsResult(hres)
    /\ IsException(hres.exc) /\ hres.exc.cls = "KeyError"
    /\ hres.exc.arg.msg = PyStr("Required field(s) not found")
    /\ calls = <<>>

\* C29: a required identifier that is present in the body but unusable
\* (service_id or cluster_id of _runtask, cluster of _healthcheck: null, empty
\* or not a string; cluster_id or service_ids of _deploy: null) is handled as
\* an absent one: the handler returns the 'Required field(s) not found'
\* KeyError Result and makes no remote call.
C29_UnusableIds ==
    /\ (/\ RunTaskRan
        /\ IsPyStr(GetOrEmpty(event.body, "entrypoint"))
        /\ \E k \in {"service_id", "cluster_id"} \cap DOMAIN event.body :
              Unusable(event.body[k])) => RequiredFault
    /\ (/\ HealthcheckRan
        /\ "cluster" \in DOMAIN event.body
        /\ Unusable(event.body.cluster)) => RequiredFault
    /\ (/\ DeployRan
        /\ \E k \in {"cluster_id", "service_ids"} \cap DOMAIN event.body :
              IsNone(event.body[k])) => RequiredFault

-----------------------------------------------------------------------------
(* The order of _deploy's calls and what a failure leaves behind, under Spec *)

\* the positions in calls of the calls of operation op, in order
IndicesOf(op) == SelectSeq([n \in 1..Len(calls) |-> n], LAMBDA n : calls[n].op = op)

\* _deploy has described the services it was asked to deploy
DeployDescribed ==
    /\ DeployRan
    /\ Len(IndicesOf("describe_services")) = 1
    /\ Succeeded(IndicesOf("describe_services")[1])

\* the update_service calls that succeeded
DoneUpdates ==
    SelectSeq(IndicesOf("update_service"), LAMBDA n : Error(calls[n].result) = EmptyDict)

\* _deploy returned a fault after having described the services
DeployFailed ==
    /\ DeployDescribed
    /\ pc = "done"
    /\ Error(hres) # EmptyDict

\* C30: _deploy takes the target services one after another in the order
\* describe_services returned them; update_service is called for a service
\* only after its describe_task_definition, and its registration if there is
\* one, succeeded, and the next service is described only after the update
\* succeeded; when a step fails, the calls made for the services before it
\* stand and no further call is made, the later services get no call, and what
\* is returned is the fault alone, without the ARNs of the services updated.
C30_OneByOne ==
    DeployDescribed =>
        LET DT == IndicesOf("describe_task_definition")
            US == IndicesOf("update_service")
        IN  /\ Len(DT) <= Len(Targets)
            /\ Len(US) <= Len(DT)
            /\ Len(DT) <= Len(DoneUpdates) + 1
            /\ \A j \in 1..Len(DT) :
                  /\ calls[DT[j]].kwargs.taskDefinition = Targets[j].taskDefinition
                  /\ j > 1 => /\ US[j - 1] = DT[j] - 1
                              /\ Error(calls[US[j - 1]].result) = EmptyDict
            /\ \A j \in 1..Len(US) :
                  /\ calls[US[j]].kwargs.service = Targets[j].serviceName
                  /\ DT[j] < US[j]
                  /\ Error(calls[DT[j]].result) = EmptyDict
                  /\ \A n \in (DT[j] + 1)..(US[j] - 1) : Registered(n)
            /\ DeployFailed =>
                  /\ hres = calls[Len(calls)].result
                  /\ \A n \in 1..(Len(calls) - 1) :
                        IsResult(calls[n].result) => Error(calls[n].result) = EmptyDict
                  /\ Len(DoneUpdates) = Len(DT) - 1
                  /\ DOMAIN ret.data.response = {"request_payload"} \cup DOMAIN Error(hres)
                  /\ "UpdatedServiceArns" \notin DOMAIN ret.data.response
                  /\ \A k \in DOMAIN Error(hres) : ret.data.response[k] = Error(hres)[k]

C30_Witness ==
    /\ DeployFailed
    /\ Len(Targets) = 2
    /\ Len(DoneUpdates) = 1
    /\ Len(IndicesOf("describe_task_definition")) = 2
    /\ calls[Len(calls)].op = "register_task_definition"
    /\ calls[DoneUpdates[1]].result.body.service.serviceArn = ServiceArn(1)
    /\ "UpdatedServiceArns" \notin DOMAIN ret.data.response

====
